-------------------------- MODULE DiskCacheProofs ---------------------------
(***************************************************************************)
(* Proofs about DiskCache for any number of processes.  As long as nothing *)
(* was unlinked, every process has the same two files open (Linked), so    *)
(* what lockf grants on a file, it grants on the key: one process in the   *)
(* monitor (EntryExclusive), and no reader beside a writer                 *)
(* (LockExclusive).  The rest says what each process knows of the entry.   *)
(***************************************************************************)
EXTENDS DiskCache, TLAPS

Writing == {"clear", "fill", "unlinkL", "unlinkE"}

Linked == ~unlinked => \A p \in Procs :
            lockFd[p] \in {NoInode, lockPath} /\ entryFd[p] \in {NoInode, entryPath}

EntryExclusive == \A p, q \in Procs :
  p # q /\ pc[p] \in Monitor /\ pc[q] \in Monitor => entryFd[p] # entryFd[q]

LockExclusive == \A p, q \in Procs :
  p # q /\ lockMode[p] = "write" /\ lockMode[q] # "none" => lockFd[p] # lockFd[q]

ModeAt == \A p \in Procs :
  /\ lockMode[p] = "write" <=> pc[p] \in Writing
  /\ lockMode[p] = "read" => pc[p] \in {"leave", "in"}

EntryKnown == ~unlinked => \A p \in Procs :
  /\ lockMode[p] = "read" \/ pc[p] \in {"openR", "waitR"} => entry # None
  /\ op[p].name = "SetDefault" /\ pc[p] \in {"openW", "waitW", "clear", "fill"} =>
       entry = None

(* One that waits for a lock has its file open. *)
Opens == \A p \in Procs : pc[p] \in {"waitW", "waitR"} => lockFd[p] # NoInode

IInv == /\ TypeOK /\ Opens /\ Linked /\ EntryExclusive /\ LockExclusive /\ ModeAt
        /\ EntryKnown
-----------------------------------------------------------------------------
LEMMA InitInv == Init => IInv
<1> SUFFICES ASSUME Init PROVE IInv
  OBVIOUS
<1> USE DEF Init
<1>1. TypeOK
  <2>1. op \in [Procs -> Ops \cup {NoOp}]
    OBVIOUS
  <2>2. unlinked \in BOOLEAN
    OBVIOUS
  <2>3. \A p \in Procs : /\ entryFd[p] # NoInode <=> pc[p] \in InCall
                         /\ lockMode[p] # "none" => lockFd[p] # NoInode
    BY DEF InCall, Monitor
  <2>4. /\ pc \in [Procs -> {"out", "in", "dead"} \cup InCall]
        /\ failures \in 0..MaxFailures /\ crashes \in 0..MaxCrashes
    BY DiskCacheAssumption
  <2>5. /\ entry \in {None} \cup Procs
        /\ lockPath \in {NoInode} \cup Inodes /\ entryPath \in {NoInode} \cup Inodes
        /\ lockFd \in [Procs -> {NoInode} \cup Inodes]
        /\ entryFd \in [Procs -> {NoInode} \cup Inodes]
        /\ lockMode \in [Procs -> {"none", "read", "write"}]
    OBVIOUS
  <2> HIDE DEF Init
  <2> QED BY <2>1, <2>2, <2>3, <2>4, <2>5 DEF TypeOK
<1>2. Linked /\ EntryExclusive /\ LockExclusive
  BY DEF Linked, EntryExclusive, LockExclusive, Monitor
<1>3. ModeAt /\ EntryKnown /\ Opens
  BY DEF ModeAt, EntryKnown, Opens, Writing
<1> QED BY <1>1, <1>2, <1>3 DEF IInv

(* A file that is opened is the one of the path, or one nobody has open. *)
LEMMA OpenedFile ==
  ASSUME NEW path \in {NoInode} \cup Inodes,
         NEW fds \in [Procs -> {NoInode} \cup Inodes],
         NEW i \in Opened(path, fds)
  PROVE  /\ i \in Inodes /\ i # NoInode
         /\ \/ path # NoInode /\ i = path
            \/ path = NoInode /\ \A p \in Procs : fds[p] # i
BY DiskCacheAssumption DEF Opened, NoInode

LEMMA OpenLockStep ==
  ASSUME TypeOK, NEW p \in Procs, OpenLock(p)
  PROVE  /\ lockPath' \in Inodes /\ lockPath' # NoInode
         /\ lockFd' \in [Procs -> {NoInode} \cup Inodes]
         /\ lockFd'[p] = lockPath'
         /\ \A q \in Procs : q # p => lockFd'[q] = lockFd[q]
         /\ lockPath' = lockPath \/ lockPath = NoInode
<1>1. PICK i \in Opened(lockPath, lockFd) :
        lockPath' = i /\ lockFd' = [lockFd EXCEPT ![p] = i]
  BY DEF OpenLock
<1>2. i \in Inodes /\ i # NoInode /\ (i = lockPath \/ lockPath = NoInode)
  BY <1>1, OpenedFile DEF TypeOK
<1> QED BY <1>1, <1>2 DEF TypeOK

(* Exactly one process moves at each step, to one of these places. *)
Places == {"out", "in", "dead"} \cup InCall

LEMMA Moves ==
  ASSUME TypeOK, NEW p \in Procs, NEW place, Goto(p, place)
  PROVE  /\ pc'[p] = place
         /\ \A q \in Procs : q # p => pc'[q] = pc[q]
         /\ place \in Places => pc' \in [Procs -> Places]
BY DEF TypeOK, Goto, Places

LEMMA CloseLockStep ==
  ASSUME TypeOK, NEW p \in Procs, CloseLock(p)
  PROVE  /\ lockFd' \in [Procs -> {NoInode} \cup Inodes]
         /\ lockMode' \in [Procs -> {"none", "read", "write"}]
         /\ lockFd'[p] = NoInode /\ lockMode'[p] = "none"
         /\ \A q \in Procs : q # p => /\ lockFd'[q] = lockFd[q]
                                      /\ lockMode'[q] = lockMode[q]
BY DEF TypeOK, CloseLock

LEMMA HoldsStep ==
  ASSUME TypeOK, NEW p \in Procs, NEW mode \in {"read", "write"}, Holds(p, mode)
  PROVE  /\ lockMode' \in [Procs -> {"none", "read", "write"}]
         /\ lockMode'[p] = mode
         /\ \A q \in Procs : q # p => lockMode'[q] = lockMode[q]
BY DEF TypeOK, Holds

LEMMA RestPlace ==
  ASSUME NEW p \in Procs
  PROVE  Rest(p) \in {"openR", "leave"}
BY DEF Rest
-----------------------------------------------------------------------------
(* One step of process p, as a relation between states. *)
StepOf(p) == \/ Step(p) \/ Acquire(p) \/ Release(p)
             \/ \E o \in Ops : Call(p, o)
             \/ InsertFails(p) \/ Crash(p)

(* What no step of p does to the other processes. *)
LEMMA OthersKept ==
  ASSUME TypeOK, NEW p \in Procs, StepOf(p), NEW q \in Procs, q # p
  PROVE  /\ pc'[q] = pc[q] /\ op'[q] = op[q] /\ lockMode'[q] = lockMode[q]
         /\ lockFd'[q] = lockFd[q] /\ entryFd'[q] = entryFd[q]
<1> USE DEF TypeOK
<1>1. CASE Acquire(p) \/ (\E o \in Ops : Call(p, o)) \/ Reopen(p)
  BY <1>1, Moves, OpenLockStep DEF Acquire, Call, Reopen, Goto
<1>2. CASE LockEntry(p) \/ Body(p) \/ Clear(p) \/ UnlinkLock(p)
  BY <1>2, Moves DEF LockEntry, Body, Clear, UnlinkLock
<1>3. CASE LockWrite(p) \/ LockRead(p)
  BY <1>3, Moves, HoldsStep DEF LockWrite, LockRead
<1>4. CASE Fill(p) \/ InsertFails(p) \/ UnlinkEntryLock(p) \/ Release(p) \/ Crash(p)
  BY <1>4, Moves, CloseLockStep DEF Fill, InsertFails, UnlinkEntryLock, Release, Crash
<1>5. CASE Leave(p)
  BY <1>5, Moves DEF Leave
<1> QED BY <1>1, <1>2, <1>3, <1>4, <1>5 DEF StepOf, Step

(* The places at which an operation moves on. *)
LEMMA Targets ==
  ASSUME TypeOK, NEW p \in Procs
  PROVE  /\ Acquire(p) => pc'[p] = "in"
         /\ (\E o \in Ops : Call(p, o)) => pc'[p] = "waitE"
         /\ LockEntry(p) => pc'[p] = "body"
         /\ Body(p) => pc'[p] \in {"openR", "openW", "leave"}
         /\ Reopen(p) => pc'[p] \in {"waitW", "waitR"}
         /\ LockWrite(p) => pc'[p] = "clear"
         /\ Clear(p) => pc'[p] \in {"unlinkL", "fill"}
         /\ Fill(p) => pc'[p] \in {"openR", "leave"}
         /\ InsertFails(p) => pc'[p] = "leave"
         /\ UnlinkLock(p) => pc'[p] = "unlinkE"
         /\ UnlinkEntryLock(p) => pc'[p] = "leave"
         /\ LockRead(p) => pc'[p] = "leave"
         /\ Leave(p) => pc'[p] = "in"
         /\ Release(p) => pc'[p] = "out"
         /\ Crash(p) => pc'[p] = "dead"
BY RestPlace DEF TypeOK, Goto, Acquire, Call, LockEntry, Body, Reopen, LockWrite,
   Clear, Fill, InsertFails, UnlinkLock, UnlinkEntryLock, LockRead, Leave,
   Release, Crash
-----------------------------------------------------------------------------
(* What a step does to the lock files and to those of them that p has open. *)
LEMMA Files ==
  ASSUME TypeOK, NEW p \in Procs, StepOf(p)
  PROVE  /\ lockPath' \in {NoInode} \cup Inodes /\ entryPath' \in {NoInode} \cup Inodes
         /\ lockFd' \in [Procs -> {NoInode} \cup Inodes]
         /\ entryFd' \in [Procs -> {NoInode} \cup Inodes]
         /\ ~unlinked' => /\ ~unlinked
                          /\ lockPath' = lockPath \/ lockPath = NoInode
                          /\ entryPath' = entryPath \/ entryPath = NoInode
                          /\ lockFd'[p] \in {NoInode, lockFd[p], lockPath'}
                          /\ entryFd'[p] \in {NoInode, entryFd[p], entryPath'}
<1>1. CASE Acquire(p) \/ Reopen(p)
  <2>1. UNCHANGED <<entryPath, entryFd, unlinked>>
    BY <1>1 DEF Acquire, Reopen
  <2>2. OpenLock(p) \/ UNCHANGED <<lockPath, lockFd>>
    BY <1>1 DEF Acquire, Reopen
  <2> QED BY <2>1, <2>2, OpenLockStep DEF TypeOK
<1>2. ASSUME NEW o \in Ops, Call(p, o)
      PROVE  /\ UNCHANGED <<lockPath, lockFd, unlinked>>
             /\ entryPath' \in Inodes /\ entryPath' # NoInode
             /\ entryFd' \in [Procs -> {NoInode} \cup Inodes]
             /\ entryFd'[p] = entryPath'
             /\ entryPath' = entryPath \/ entryPath = NoInode
  <2>1. PICK i \in Opened(entryPath, entryFd) :
          entryPath' = i /\ entryFd' = [entryFd EXCEPT ![p] = i]
    BY <1>2 DEF Call
  <2>2. i \in Inodes /\ i # NoInode /\ (i = entryPath \/ entryPath = NoInode)
    BY <2>1, OpenedFile DEF TypeOK
  <2> QED BY <1>2, <2>1, <2>2 DEF TypeOK, Call
<1>3. CASE \E o \in Ops : Call(p, o)
  BY <1>2, <1>3 DEF TypeOK
<1>4. CASE LockEntry(p) \/ Body(p) \/ Clear(p) \/ LockWrite(p) \/ LockRead(p)
  <2>1. UNCHANGED <<lockPath, entryPath, lockFd, entryFd, unlinked>>
    BY <1>4 DEF LockEntry, Body, Clear, LockWrite, LockRead, disk
  <2> QED BY <2>1 DEF TypeOK
<1>5. CASE Fill(p) \/ InsertFails(p) \/ Release(p)
  <2>1. UNCHANGED <<lockPath, entryPath, entryFd, unlinked>> /\ CloseLock(p)
    BY <1>5 DEF Fill, InsertFails, Release, disk
  <2> QED BY <2>1, CloseLockStep DEF TypeOK
<1>6. CASE Leave(p) \/ Crash(p)
  <2>1. UNCHANGED <<lockPath, entryPath, unlinked>>
    BY <1>6 DEF Leave, Crash, disk
  <2>2. entryFd' = [entryFd EXCEPT ![p] = NoInode]
    BY <1>6 DEF Leave, Crash
  <2>3. CloseLock(p) \/ UNCHANGED lockFd
    BY <1>6 DEF Leave, Crash
  <2> QED BY <2>1, <2>2, <2>3, CloseLockStep DEF TypeOK
<1>7. CASE UnlinkLock(p) \/ UnlinkEntryLock(p)
  <2>1. unlinked' /\ UNCHANGED entryFd
    BY <1>7 DEF UnlinkLock, UnlinkEntryLock
  <2>2. CloseLock(p) \/ UNCHANGED lockFd
    BY <1>7 DEF UnlinkLock, UnlinkEntryLock
  <2>3. lockPath' \in {NoInode, lockPath} /\ entryPath' \in {NoInode, entryPath}
    BY <1>7 DEF UnlinkLock, UnlinkEntryLock
  <2> QED BY <2>1, <2>2, <2>3, CloseLockStep DEF TypeOK
<1> QED BY <1>1, <1>3, <1>4, <1>5, <1>6, <1>7 DEF StepOf, Step

LEMMA LinkedStep ==
  ASSUME TypeOK, Linked, NEW p \in Procs, StepOf(p)
  PROVE  Linked'
<1> SUFFICES ASSUME ~unlinked', NEW q \in Procs
             PROVE  /\ lockFd'[q] \in {NoInode, lockPath'}
                    /\ entryFd'[q] \in {NoInode, entryPath'}
  BY DEF Linked
<1>1. /\ ~unlinked
      /\ lockPath' = lockPath \/ lockPath = NoInode
      /\ entryPath' = entryPath \/ entryPath = NoInode
      /\ lockFd'[p] \in {NoInode, lockFd[p], lockPath'}
      /\ entryFd'[p] \in {NoInode, entryFd[p], entryPath'}
  BY Files
<1>2. \A r \in Procs :
        lockFd[r] \in {NoInode, lockPath} /\ entryFd[r] \in {NoInode, entryPath}
  BY <1>1 DEF Linked
<1>3. CASE q = p
  BY <1>1, <1>2, <1>3
<1>4. CASE q # p
  BY <1>1, <1>2, <1>4, OthersKept
<1> QED BY <1>3, <1>4
-----------------------------------------------------------------------------
(* A process gets into the monitor by LockEntry only, and stays on its file. *)
LEMMA Enters ==
  ASSUME TypeOK, NEW p \in Procs, StepOf(p), pc'[p] \in Monitor
  PROVE  /\ entryFd'[p] = entryFd[p]
         /\ pc[p] \in Monitor \/ (pc[p] = "waitE" /\ EntryGrantable(p))
<1>1. CASE LockEntry(p)
  BY <1>1 DEF LockEntry
<1>2. CASE Body(p) \/ LockWrite(p) \/ InsertFails(p) \/ LockRead(p)
  BY <1>2 DEF Body, LockWrite, InsertFails, LockRead, Monitor
<1>3. CASE Reopen(p) \/ Clear(p) \/ Fill(p) \/ UnlinkLock(p) \/ UnlinkEntryLock(p)
  BY <1>3 DEF Reopen, Clear, Fill, UnlinkLock, UnlinkEntryLock, Monitor
<1>4. CASE Acquire(p) \/ (\E o \in Ops : Call(p, o)) \/ Leave(p) \/ Release(p) \/ Crash(p)
  BY <1>4, Targets DEF Monitor
<1> QED BY <1>1, <1>2, <1>3, <1>4 DEF StepOf, Step

LEMMA EntryExclusiveStep ==
  ASSUME TypeOK, EntryExclusive, NEW p \in Procs, StepOf(p)
  PROVE  EntryExclusive'
<1>1. ASSUME NEW q \in Procs, q # p, pc'[p] \in Monitor, pc'[q] \in Monitor
      PROVE  entryFd'[p] # entryFd'[q]
  <2>1. pc[q] \in Monitor /\ entryFd'[q] = entryFd[q]
    BY <1>1, OthersKept
  <2>2. /\ entryFd'[p] = entryFd[p]
        /\ pc[p] \in Monitor \/ (pc[p] = "waitE" /\ EntryGrantable(p))
    BY <1>1, Enters
  <2> QED BY <1>1, <2>1, <2>2 DEF EntryExclusive, EntryGrantable
<1>2. ASSUME NEW q \in Procs, NEW r \in Procs, q # p, r # p, q # r,
             pc'[q] \in Monitor, pc'[r] \in Monitor
      PROVE  entryFd'[q] # entryFd'[r]
  BY <1>2, OthersKept DEF EntryExclusive
<1> QED BY <1>1, <1>2 DEF EntryExclusive
-----------------------------------------------------------------------------
(* A lock comes with LockWrite or LockRead only, and stays on its file. *)
LEMMA Locks ==
  ASSUME TypeOK, ModeAt, NEW p \in Procs, StepOf(p), lockMode'[p] # "none"
  PROVE  /\ lockFd'[p] = lockFd[p]
         /\ \/ lockMode'[p] = lockMode[p]
            \/ lockMode'[p] = "write" /\ Grantable(p, {"read", "write"})
            \/ lockMode'[p] = "read" /\ Grantable(p, {"write"})
<1>1. CASE LockWrite(p)
  BY <1>1, HoldsStep DEF LockWrite
<1>2. CASE LockRead(p)
  BY <1>2, HoldsStep DEF LockRead
<1>3. CASE Acquire(p)
  <2>1. lockMode'[p] = lockMode[p] /\ pc[p] = "out"
    BY <1>3 DEF Acquire
  <2> QED BY <2>1 DEF TypeOK, ModeAt, Writing
<1>4. CASE Reopen(p)
  <2>1. lockMode'[p] = lockMode[p] /\ pc[p] \in {"openW", "openR"}
    BY <1>4 DEF Reopen
  <2> QED BY <2>1 DEF TypeOK, ModeAt, Writing
<1>5. CASE LockEntry(p) \/ Body(p) \/ Clear(p) \/ UnlinkLock(p) \/ Leave(p)
             \/ (\E o \in Ops : Call(p, o))
  BY <1>5 DEF LockEntry, Body, Clear, UnlinkLock, Leave, Call
<1>6. CASE Fill(p) \/ InsertFails(p) \/ UnlinkEntryLock(p) \/ Release(p) \/ Crash(p)
  BY <1>6, CloseLockStep DEF Fill, InsertFails, UnlinkEntryLock, Release, Crash
<1> QED BY <1>1, <1>2, <1>3, <1>4, <1>5, <1>6 DEF StepOf, Step

LEMMA LockExclusiveStep ==
  ASSUME TypeOK, ModeAt, LockExclusive, NEW p \in Procs, StepOf(p)
  PROVE  LockExclusive'
<1>1. ASSUME NEW q \in Procs, q # p, lockMode'[p] # "none", lockMode'[q] # "none",
             lockMode'[p] = "write" \/ lockMode'[q] = "write"
      PROVE  lockFd'[p] # lockFd'[q]
  <2>1. lockMode'[q] = lockMode[q] /\ lockFd'[q] = lockFd[q]
    BY <1>1, OthersKept
  <2>2. /\ lockFd'[p] = lockFd[p]
        /\ \/ lockMode'[p] = lockMode[p]
           \/ lockMode'[p] = "write" /\ Grantable(p, {"read", "write"})
           \/ lockMode'[p] = "read" /\ Grantable(p, {"write"})
    BY <1>1, Locks
  <2>3. lockMode[q] \in {"read", "write"}
    BY <1>1, <2>1 DEF TypeOK
  <2>4. CASE lockMode'[p] = lockMode[p]
    BY <1>1, <2>1, <2>2, <2>4 DEF LockExclusive
  <2>5. CASE lockMode'[p] = "write" /\ Grantable(p, {"read", "write"})
    BY <1>1, <2>1, <2>2, <2>3, <2>5 DEF Grantable
  <2>6. CASE lockMode'[p] = "read" /\ Grantable(p, {"write"})
    BY <1>1, <2>1, <2>2, <2>6 DEF Grantable
  <2> QED BY <2>2, <2>4, <2>5, <2>6
<1>2. ASSUME NEW q \in Procs, NEW r \in Procs, q # p, r # p, q # r,
             lockMode'[q] = "write", lockMode'[r] # "none"
      PROVE  lockFd'[q] # lockFd'[r]
  BY <1>2, OthersKept DEF LockExclusive
<1> QED BY <1>1, <1>2 DEF LockExclusive

LEMMA ModeAtStep ==
  ASSUME TypeOK, ModeAt, NEW p \in Procs, StepOf(p)
  PROVE  ModeAt'
<1>1. /\ lockMode'[p] = "write" <=> pc'[p] \in Writing
      /\ lockMode'[p] = "read" => pc'[p] \in {"leave", "in"}
  <2>1. CASE LockWrite(p) \/ LockRead(p)
    BY <2>1, HoldsStep, Targets DEF LockWrite, LockRead, Writing
  <2>2. CASE Fill(p) \/ InsertFails(p) \/ UnlinkEntryLock(p) \/ Release(p) \/ Crash(p)
    BY <2>2, CloseLockStep, Targets
       DEF Fill, InsertFails, UnlinkEntryLock, Release, Crash, Writing
  <2>3. CASE Acquire(p) \/ LockEntry(p) \/ Body(p) \/ Reopen(p) \/ Leave(p)
    <3>1. lockMode'[p] = lockMode[p] /\ pc[p] \notin Writing
      BY <2>3 DEF Acquire, LockEntry, Body, Reopen, Leave, Writing
    <3>2. lockMode[p] = "read" => Leave(p)
      BY <2>3 DEF Acquire, LockEntry, Body, Reopen, ModeAt
    <3> QED BY <2>3, <3>1, <3>2, Targets DEF ModeAt, Writing
  <2>4. CASE Clear(p) \/ UnlinkLock(p)
    <3>1. lockMode'[p] = lockMode[p] /\ pc[p] \in Writing
      BY <2>4 DEF Clear, UnlinkLock, Writing
    <3> QED BY <2>4, <3>1, Targets DEF ModeAt, Writing
  <2>5. CASE \E o \in Ops : Call(p, o)
    <3>1. lockMode'[p] = lockMode[p] /\ pc[p] = "in" /\ lockMode[p] # "read"
      BY <2>5 DEF Call
    <3> QED BY <2>5, <3>1, Targets DEF ModeAt, Writing
  <2> QED BY <2>1, <2>2, <2>3, <2>4, <2>5 DEF StepOf, Step
<1>2. ASSUME NEW q \in Procs, q # p
      PROVE  /\ lockMode'[q] = "write" <=> pc'[q] \in Writing
             /\ lockMode'[q] = "read" => pc'[q] \in {"leave", "in"}
  BY <1>2, OthersKept DEF ModeAt
<1> QED BY <1>1, <1>2 DEF ModeAt
-----------------------------------------------------------------------------
(* As long as nothing was unlinked, one process is in the monitor ...      *)
LEMMA Alone ==
  ASSUME TypeOK, Linked, EntryExclusive, ~unlinked,
         NEW p \in Procs, NEW q \in Procs, pc[p] \in Monitor, pc[q] \in Monitor
  PROVE  p = q
<1>1. entryFd[p] # NoInode /\ entryFd[q] # NoInode
  BY DEF TypeOK, InCall
<1>2. entryFd[p] = entryPath /\ entryFd[q] = entryPath
  BY <1>1 DEF Linked
<1> QED BY <1>2 DEF EntryExclusive

(* ... and where one has the write lock, no other has any.                 *)
LEMMA WriterAlone ==
  ASSUME TypeOK, Linked, LockExclusive, ~unlinked,
         NEW p \in Procs, NEW q \in Procs,
         lockMode[p] = "write", lockMode[q] # "none"
  PROVE  p = q
<1>1. lockFd[p] # NoInode /\ lockFd[q] # NoInode
  BY DEF TypeOK
<1>2. lockFd[p] = lockPath /\ lockFd[q] = lockPath
  BY <1>1 DEF Linked
<1> QED BY <1>2 DEF LockExclusive

(* Only Clear and Fill change the entry, with the write lock.              *)
LEMMA EntryChanges ==
  ASSUME ModeAt, NEW p \in Procs, StepOf(p), entry' # entry
  PROVE  lockMode[p] = "write" /\ pc[p] \in {"clear", "fill"}
<1>1. Clear(p) \/ Fill(p)
  BY DEF StepOf, Step, Acquire, Call, LockEntry, Body, Reopen, LockWrite, Clear,
     Fill, InsertFails, UnlinkLock, UnlinkEntryLock, LockRead, Leave, Release,
     Crash, disk
<1> QED BY <1>1 DEF Clear, Fill, ModeAt, Writing

(* What p knows of the entry after its own step. *)
LEMMA OwnEntry ==
  ASSUME IInv, NEW p \in Procs, StepOf(p), ~unlinked'
  PROVE  /\ lockMode'[p] = "read" \/ pc'[p] \in {"openR", "waitR"} => entry' # None
         /\ op'[p].name = "SetDefault" /\ pc'[p] \in {"openW", "waitW", "clear", "fill"} =>
              entry' = None
<1> USE DEF IInv
<1>1. /\ ~unlinked
      /\ lockMode[p] = "read" \/ pc[p] \in {"openR", "waitR"} => entry # None
      /\ op[p].name = "SetDefault" /\ pc[p] \in {"openW", "waitW", "clear", "fill"} =>
           entry = None
  <2>1. ~unlinked
    BY Files
  <2> QED BY <2>1 DEF EntryKnown
<1>2. CASE Acquire(p) \/ LockEntry(p) \/ Leave(p) \/ (\E o \in Ops : Call(p, o))
  <2>1. entry' = entry /\ lockMode'[p] = lockMode[p]
    BY <1>2 DEF Acquire, LockEntry, Leave, Call, disk
  <2> QED BY <1>1, <1>2, <2>1, Targets
<1>3. CASE Release(p) \/ Crash(p) \/ InsertFails(p) \/ UnlinkEntryLock(p)
  <2>1. lockMode'[p] = "none"
    BY <1>3, CloseLockStep DEF Release, Crash, InsertFails, UnlinkEntryLock
  <2> QED BY <1>3, <2>1, Targets
<1>4. CASE UnlinkLock(p)
  BY <1>4 DEF UnlinkLock
<1>5. CASE Body(p)
  <2>1. entry' = entry /\ lockMode'[p] = lockMode[p] /\ op' = op
    BY <1>5 DEF Body, disk
  <2>2. pc'[p] = "openR" => entry # None
    BY <1>5, Moves DEF Body, Goto, TypeOK
  <2>3. pc'[p] = "openW" /\ op[p].name = "SetDefault" => entry = None
    <3>1. CASE op[p].name = "SetDefault"
      <4>1. Goto(p, IF entry # None THEN Rest(p) ELSE "openW")
        BY <1>5, <3>1 DEF Body
      <4> QED BY <4>1, Moves, RestPlace
    <3> QED BY <3>1
  <2> QED BY <1>1, <1>5, <2>1, <2>2, <2>3, Targets
<1>6. CASE Reopen(p)
  <2>1. entry' = entry /\ lockMode'[p] = lockMode[p] /\ op' = op
    BY <1>6 DEF Reopen
  <2>2. /\ pc[p] \in {"openW", "openR"}
        /\ pc'[p] = IF pc[p] = "openW" THEN "waitW" ELSE "waitR"
    BY <1>6, Moves DEF Reopen
  <2> QED BY <1>1, <2>1, <2>2
<1>7. CASE LockWrite(p)
  <2>1. entry' = entry /\ lockMode'[p] = "write" /\ op' = op /\ pc[p] = "waitW"
    BY <1>7, HoldsStep DEF LockWrite, disk
  <2> QED BY <1>1, <1>7, <2>1, Targets
<1>8. CASE LockRead(p)
  <2>1. entry' = entry /\ pc[p] = "waitR"
    BY <1>8 DEF LockRead, disk
  <2> QED BY <1>1, <1>8, <2>1, Targets
<1>9. CASE Clear(p)
  <2>1. entry' = None /\ lockMode'[p] = lockMode[p] /\ pc[p] = "clear"
    BY <1>9 DEF Clear
  <2>2. lockMode[p] # "read"
    BY <2>1 DEF ModeAt
  <2> QED BY <1>9, <2>1, <2>2, Targets
<1>10. CASE Fill(p)
  <2>1. entry' = p
    BY <1>10 DEF Fill
  <2> QED BY <1>10, <2>1, Targets, DiskCacheAssumption
<1> QED BY <1>2, <1>3, <1>4, <1>5, <1>6, <1>7, <1>8, <1>9, <1>10 DEF StepOf, Step

LEMMA EntryKnownStep ==
  ASSUME IInv, NEW p \in Procs, StepOf(p)
  PROVE  EntryKnown'
<1> SUFFICES ASSUME ~unlinked', NEW q \in Procs
      PROVE  /\ lockMode'[q] = "read" \/ pc'[q] \in {"openR", "waitR"} => entry' # None
             /\ op'[q].name = "SetDefault" /\ pc'[q] \in {"openW", "waitW", "clear", "fill"} =>
                  entry' = None
  BY DEF EntryKnown
<1>1. CASE q = p
  BY <1>1, OwnEntry
<1>2. CASE q # p
  <2>1. pc'[q] = pc[q] /\ op'[q] = op[q] /\ lockMode'[q] = lockMode[q]
    BY <1>2, OthersKept DEF IInv
  <2>2. ~unlinked
    BY Files DEF IInv
  <2>3. CASE entry' = entry
    BY <2>1, <2>2, <2>3 DEF IInv, EntryKnown
  <2>4. CASE entry' # entry
    <3>1. lockMode[p] = "write" /\ pc[p] \in Monitor
      BY <2>4, EntryChanges DEF IInv, Monitor
    <3>2. lockMode[q] # "read"
      BY <1>2, <2>2, <3>1, WriterAlone DEF IInv
    <3>3. pc[q] \notin Monitor
      BY <1>2, <2>2, <3>1, Alone DEF IInv
    <3> QED BY <2>1, <3>2, <3>3 DEF Monitor
  <2> QED BY <2>3, <2>4
<1> QED BY <1>1, <1>2
-----------------------------------------------------------------------------
LEMMA OpStep ==
  ASSUME TypeOK, NEW p \in Procs, StepOf(p)
  PROVE  op' \in [Procs -> Ops \cup {NoOp}]
<1>1. \/ UNCHANGED op
      \/ op' = [op EXCEPT ![p] = NoOp]
      \/ \E o \in Ops : op' = [op EXCEPT ![p] = o]
  BY DEF StepOf, Step, Acquire, Call, LockEntry, Body, Reopen, LockWrite, Clear,
     Fill, InsertFails, UnlinkLock, UnlinkEntryLock, LockRead, Leave, Release, Crash
<1> QED BY <1>1 DEF TypeOK

LEMMA PlaceStep ==
  ASSUME TypeOK, NEW p \in Procs, StepOf(p)
  PROVE  pc' \in [Procs -> Places]
<1>1. \E place \in Places : Goto(p, place)
  BY RestPlace DEF StepOf, Step, Acquire, Call, LockEntry, Body, Reopen, LockWrite,
     Clear, Fill, InsertFails, UnlinkLock, UnlinkEntryLock, LockRead, Leave, Release,
     Crash, Places, InCall, Monitor
<1> QED BY <1>1, Moves

LEMMA LockModeStep ==
  ASSUME TypeOK, NEW p \in Procs, StepOf(p)
  PROVE  lockMode' \in [Procs -> {"none", "read", "write"}]
<1>1. CASE LockWrite(p) \/ LockRead(p)
  BY <1>1, HoldsStep DEF LockWrite, LockRead
<1>2. CASE Fill(p) \/ InsertFails(p) \/ UnlinkEntryLock(p) \/ Release(p) \/ Crash(p)
  BY <1>2, CloseLockStep DEF Fill, InsertFails, UnlinkEntryLock, Release, Crash
<1>3. CASE Acquire(p) \/ LockEntry(p) \/ Body(p) \/ Reopen(p) \/ Clear(p)
             \/ UnlinkLock(p) \/ Leave(p) \/ (\E o \in Ops : Call(p, o))
  <2>1. lockMode' = lockMode
    BY <1>3 DEF Acquire, LockEntry, Body, Reopen, Clear, UnlinkLock, Leave, Call
  <2> QED BY <2>1 DEF TypeOK
<1> QED BY <1>1, <1>2, <1>3 DEF StepOf, Step

LEMMA CountsStep ==
  ASSUME TypeOK, NEW p \in Procs, StepOf(p)
  PROVE  failures' \in 0..MaxFailures /\ crashes' \in 0..MaxCrashes
<1>1. CASE InsertFails(p)
  BY <1>1, DiskCacheAssumption DEF InsertFails, TypeOK
<1>2. CASE Crash(p)
  BY <1>2, DiskCacheAssumption DEF Crash, TypeOK
<1>3. CASE Step(p) \/ Acquire(p) \/ Release(p) \/ (\E o \in Ops : Call(p, o))
  <2>1. UNCHANGED <<failures, crashes>>
    BY <1>3 DEF Step, Acquire, Call, LockEntry, Body, Reopen, LockWrite, Clear, Fill,
       UnlinkLock, UnlinkEntryLock, LockRead, Leave, Release, bounds
  <2> QED BY <2>1 DEF TypeOK
<1> QED BY <1>1, <1>2, <1>3 DEF StepOf

LEMMA UnlinkedStep ==
  ASSUME TypeOK, NEW p \in Procs, StepOf(p)
  PROVE  unlinked' \in BOOLEAN
<1>1. unlinked \in BOOLEAN
  BY DEF TypeOK
<1>2. CASE UnlinkLock(p) \/ UnlinkEntryLock(p)
  <2>1. unlinked' = TRUE
    BY <1>2 DEF UnlinkLock, UnlinkEntryLock
  <2> QED BY <2>1
<1>3. CASE unlinked' = unlinked
  BY <1>1, <1>3
<1>4. UnlinkLock(p) \/ UnlinkEntryLock(p) \/ unlinked' = unlinked
  BY DEF StepOf, Step, Acquire, Call, LockEntry, Body, Reopen, LockWrite, Clear, Fill,
     InsertFails, LockRead, Leave, Release, Crash, disk
<1> QED BY <1>2, <1>3, <1>4

(* The entry lock's file is open from Call to Leave. *)
LEMMA EntryFdStep ==
  ASSUME TypeOK, NEW p \in Procs, StepOf(p)
  PROVE  entryFd'[p] # NoInode <=> pc'[p] \in InCall
<1>1. CASE \E o \in Ops : Call(p, o)
  <2>1. PICK i \in Opened(entryPath, entryFd) : entryFd' = [entryFd EXCEPT ![p] = i]
    BY <1>1 DEF Call
  <2>2. entryFd'[p] # NoInode
    BY <2>1, OpenedFile DEF TypeOK
  <2> QED BY <1>1, <2>2, Targets DEF InCall
<1>2. CASE Leave(p) \/ Crash(p)
  <2>1. entryFd'[p] = NoInode
    BY <1>2 DEF Leave, Crash, TypeOK
  <2> QED BY <1>2, <2>1, Targets DEF InCall, Monitor
<1>3. CASE Acquire(p) \/ Release(p)
  <2>1. entryFd' = entryFd /\ pc[p] \in {"out", "in"}
    BY <1>3 DEF Acquire, Release, disk
  <2> QED BY <1>3, <2>1, Targets DEF InCall, Monitor, TypeOK
<1>4. CASE LockEntry(p) \/ Body(p) \/ Reopen(p) \/ LockWrite(p) \/ Clear(p)
             \/ Fill(p) \/ UnlinkLock(p) \/ UnlinkEntryLock(p) \/ LockRead(p)
             \/ InsertFails(p)
  <2>1. entryFd' = entryFd
    BY <1>4 DEF LockEntry, Body, Reopen, LockWrite, Clear, Fill, UnlinkLock,
       UnlinkEntryLock, LockRead, InsertFails
  <2>2. pc[p] \in InCall
    BY <1>4 DEF LockEntry, Body, Reopen, LockWrite, Clear, Fill, UnlinkLock,
       UnlinkEntryLock, LockRead, InsertFails, InCall, Monitor
  <2>3. pc'[p] \in InCall
    BY <1>4, Targets DEF InCall, Monitor
  <2> QED BY <2>1, <2>2, <2>3 DEF TypeOK
<1> QED BY <1>1, <1>2, <1>3, <1>4 DEF StepOf, Step

(* A lock is on an open file. *)
LEMMA LockFdStep ==
  ASSUME TypeOK, Opens, ModeAt, NEW p \in Procs, StepOf(p)
  PROVE  lockMode'[p] # "none" => lockFd'[p] # NoInode
<1> SUFFICES ASSUME lockMode'[p] # "none" PROVE lockFd'[p] # NoInode
  OBVIOUS
<1>1. lockFd'[p] = lockFd[p]
  BY Locks
<1>2. CASE LockWrite(p) \/ LockRead(p)
  BY <1>1, <1>2 DEF LockWrite, LockRead, Opens
<1>3. CASE lockMode'[p] = lockMode[p]
  BY <1>1, <1>3 DEF TypeOK
<1>4. CASE Fill(p) \/ InsertFails(p) \/ UnlinkEntryLock(p) \/ Release(p) \/ Crash(p)
  BY <1>4, CloseLockStep DEF Fill, InsertFails, UnlinkEntryLock, Release, Crash
<1>5. CASE Acquire(p) \/ LockEntry(p) \/ Body(p) \/ Reopen(p) \/ Clear(p)
             \/ UnlinkLock(p) \/ Leave(p) \/ (\E o \in Ops : Call(p, o))
  BY <1>3, <1>5 DEF Acquire, LockEntry, Body, Reopen, Clear, UnlinkLock, Leave, Call
<1> QED BY <1>2, <1>4, <1>5 DEF StepOf, Step

LEMMA OpensStep ==
  ASSUME TypeOK, Opens, NEW p \in Procs, StepOf(p)
  PROVE  Opens'
<1>1. pc'[p] \in {"waitW", "waitR"} => lockFd'[p] # NoInode
  <2> SUFFICES ASSUME pc'[p] \in {"waitW", "waitR"} PROVE lockFd'[p] # NoInode
    OBVIOUS
  <2>1. Reopen(p)
    BY Targets DEF StepOf, Step
  <2>2. (lockFd[p] # NoInode /\ lockFd' = lockFd) \/ OpenLock(p)
    BY <2>1 DEF Reopen
  <2> QED BY <2>2, OpenLockStep
<1>2. ASSUME NEW q \in Procs, q # p
      PROVE  pc'[q] \in {"waitW", "waitR"} => lockFd'[q] # NoInode
  BY <1>2, OthersKept DEF Opens
<1> QED BY <1>1, <1>2 DEF Opens

LEMMA EntryStep ==
  ASSUME TypeOK, NEW p \in Procs, StepOf(p)
  PROVE  entry' \in {None} \cup Procs
<1>1. entry' \in {entry, None, p}
  BY DEF StepOf, Step, Acquire, Call, LockEntry, Body, Reopen, LockWrite, Clear,
     Fill, InsertFails, UnlinkLock, UnlinkEntryLock, LockRead, Leave, Release,
     Crash, disk
<1> QED BY <1>1 DEF TypeOK

LEMMA TypeStep ==
  ASSUME TypeOK, Opens, ModeAt, NEW p \in Procs, StepOf(p)
  PROVE  TypeOK'
<1>1. \A q \in Procs : /\ entryFd'[q] # NoInode <=> pc'[q] \in InCall
                       /\ lockMode'[q] # "none" => lockFd'[q] # NoInode
  <2>1. ASSUME NEW q \in Procs, q # p
        PROVE  /\ entryFd'[q] # NoInode <=> pc'[q] \in InCall
               /\ lockMode'[q] # "none" => lockFd'[q] # NoInode
    BY <2>1, OthersKept DEF TypeOK
  <2> QED BY <2>1, EntryFdStep, LockFdStep
<1>2. /\ entry' \in {None} \cup Procs
      /\ lockPath' \in {NoInode} \cup Inodes /\ entryPath' \in {NoInode} \cup Inodes
      /\ lockFd' \in [Procs -> {NoInode} \cup Inodes]
      /\ entryFd' \in [Procs -> {NoInode} \cup Inodes]
      /\ lockMode' \in [Procs -> {"none", "read", "write"}]
      /\ op' \in [Procs -> Ops \cup {NoOp}]
      /\ failures' \in 0..MaxFailures /\ crashes' \in 0..MaxCrashes
  BY EntryStep, Files, LockModeStep, OpStep, CountsStep
<1>3. pc' \in [Procs -> {"out", "in", "dead"} \cup InCall]
  BY PlaceStep DEF Places
<1>4. unlinked' \in BOOLEAN
  BY UnlinkedStep
<1> QED BY <1>1, <1>2, <1>3, <1>4 DEF TypeOK
-----------------------------------------------------------------------------
LEMMA StepInv == IInv /\ [Next]_vars => IInv'
<1>1. ASSUME IInv, NEW p \in Procs, StepOf(p)
      PROVE  IInv'
  <2>1. TypeOK' /\ Opens' /\ Linked'
    BY <1>1, TypeStep, OpensStep, LinkedStep DEF IInv
  <2>2. EntryExclusive' /\ LockExclusive' /\ ModeAt'
    BY <1>1, EntryExclusiveStep, LockExclusiveStep, ModeAtStep DEF IInv
  <2>3. EntryKnown'
    BY <1>1, EntryKnownStep
  <2> QED BY <2>1, <2>2, <2>3 DEF IInv
<1>2. ASSUME IInv, UNCHANGED vars
      PROVE  IInv'
  BY <1>2 DEF IInv, TypeOK, Opens, Linked, EntryExclusive, LockExclusive, ModeAt,
     EntryKnown, vars, bounds
<1> QED BY <1>1, <1>2 DEF Next, StepOf

LEMMA Invariant == Spec => []IInv
<1> QED BY InitInv, StepInv, PTL DEF Spec

(* The types are right, and the files of the locks are open where the code *)
(* has them open.                                                          *)
THEOREM TypeCorrect == Spec => []TypeOK
<1>1. IInv => TypeOK
  BY DEF IInv
<1> QED BY <1>1, Invariant, PTL

(* Where no process calls Remove, SetDefault never replaces an entry.      *)
THEOREM DefaultsSafe == Spec => []DefaultKeepsEntry
<1>1. IInv => DefaultKeepsEntry
  BY DEF IInv, EntryKnown, DefaultKeepsEntry
<1> QED BY <1>1, Invariant, PTL

(* Where no process calls Remove, an entry stays as it is as long as a     *)
(* reader has the read lock on it.                                         *)
THEOREM ReadersSafe == Spec => ReadersKeepEntry
<1> DEFINE Kept == ~unlinked' => \A p \in Procs : Reading(p) /\ Reading(p)' =>
                     entry # None /\ entry' = entry
<1>1. IInv /\ [Next]_vars => [Kept]_vars
  <2>1. ASSUME IInv, NEW p \in Procs, StepOf(p), ~unlinked',
               NEW q \in Procs, Reading(q), Reading(q)'
        PROVE  entry # None /\ entry' = entry
    <3>1. ~unlinked
      BY <2>1, Files DEF IInv
    <3>2. lockMode[q] = "read"
      BY <2>1 DEF Reading
    <3>3. entry # None
      BY <2>1, <3>1, <3>2 DEF IInv, EntryKnown
    <3>4. ASSUME entry' # entry PROVE FALSE
      <4>1. lockMode[p] = "write"
        BY <2>1, <3>4, EntryChanges DEF IInv
      <4>2. p = q
        BY <2>1, <3>1, <3>2, <4>1, WriterAlone DEF IInv
      <4> QED BY <3>2, <4>1, <4>2
    <3> QED BY <3>3, <3>4
  <2>2. ASSUME IInv, NEW p \in Procs, StepOf(p) PROVE Kept
    BY <2>1, <2>2
  <2> QED BY <2>2 DEF Next, StepOf
<1> QED BY <1>1, Invariant, PTL DEF Spec, ReadersKeepEntry

(* The holder of the key lock waits for nobody, so no process waits for    *)
(* another in a circle, whatever is called, removed, raised or killed.     *)
THEOREM WaitsEnd == Spec => []NoCircularWait
<1>1. ASSUME IInv, NEW p \in Procs, NEW q \in Procs, NEW r \in Procs,
             WaitsFor(p, q), WaitsFor(q, r), NEW s \in Procs
      PROVE  ~WaitsFor(r, s)
  <2>1. ASSUME NEW x \in Procs, NEW y \in Procs, WaitsFor(x, y),
               pc[x] \in {"waitW", "waitR"}, NEW z \in Procs
        PROVE  ~WaitsFor(y, z)
    <3>1. lockMode[y] \in {"read", "write"}
      BY <1>1, <2>1 DEF WaitsFor, IInv, TypeOK
    <3>2. pc[y] \in Writing \cup {"leave", "in"}
      BY <1>1, <3>1 DEF IInv, ModeAt
    <3> QED BY <3>2 DEF WaitsFor, Writing
  <2>2. CASE pc[p] \in {"waitW", "waitR"}
    BY <1>1, <2>1, <2>2
  <2>3. CASE pc[p] = "waitE"
    <3>1. pc[q] \in Monitor
      BY <1>1, <2>3 DEF WaitsFor
    <3>2. pc[q] \in {"waitW", "waitR"}
      BY <1>1, <3>1 DEF WaitsFor, Monitor
    <3> QED BY <1>1, <2>1, <3>2
  <2> QED BY <1>1, <2>2, <2>3 DEF WaitsFor
<1>2. IInv => NoCircularWait
  BY <1>1 DEF NoCircularWait
<1> QED BY <1>2, Invariant, PTL
-----------------------------------------------------------------------------
(* How far a place of an operation is from the operation's end.            *)
Ahead(place) ==
  CASE place = "waitE" -> 9
    [] place = "body" -> 8
    [] place = "openW" -> 7
    [] place = "waitW" -> 6
    [] place = "clear" -> 5
    [] place \in {"fill", "unlinkL"} -> 4
    [] place \in {"openR", "unlinkE"} -> 3
    [] place = "waitR" -> 2
    [] place = "leave" -> 1
    [] OTHER -> 0

(* A process inside an operation only moves on, and the others move it     *)
(* nowhere: they neither close its files nor take its locks.               *)
OperationsShrink ==
  [][\A p \in Procs : pc[p] \in InCall =>
       \/ Ahead(pc'[p]) < Ahead(pc[p])
       \/ /\ pc'[p] = pc[p] /\ op'[p] = op[p] /\ lockMode'[p] = lockMode[p]
          /\ lockFd'[p] = lockFd[p] /\ entryFd'[p] = entryFd[p]]_vars

LEMMA AheadStep ==
  ASSUME TypeOK, NEW p \in Procs, pc[p] \in InCall, StepOf(p)
  PROVE  Ahead(pc'[p]) < Ahead(pc[p])
<1> DEFINE From(a, b) == pc[p] = a /\ pc'[p] = b
<1>1. \/ From("waitE", "body")
      \/ pc[p] = "body" /\ pc'[p] \in {"openR", "openW", "leave"}
      \/ From("openW", "waitW") \/ From("openR", "waitR")
      \/ From("waitW", "clear")
      \/ pc[p] = "clear" /\ pc'[p] \in {"unlinkL", "fill", "leave"}
      \/ pc[p] = "fill" /\ pc'[p] \in {"openR", "leave"}
      \/ From("unlinkL", "unlinkE") \/ From("unlinkE", "leave")
      \/ From("waitR", "leave") \/ From("leave", "in")
      \/ pc'[p] = "dead"
  <2>1. CASE LockEntry(p) \/ Body(p) \/ LockWrite(p)
    BY <2>1, Targets DEF LockEntry, Body, LockWrite
  <2>2. CASE Reopen(p)
    BY <2>2 DEF Reopen, Goto, TypeOK
  <2>3. CASE Clear(p) \/ Fill(p)
    BY <2>3, Targets DEF Clear, Fill
  <2>4. CASE InsertFails(p)
    BY <2>4, Targets DEF InsertFails
  <2>5. CASE UnlinkLock(p) \/ UnlinkEntryLock(p)
    BY <2>5, Targets DEF UnlinkLock, UnlinkEntryLock
  <2>6. CASE LockRead(p) \/ Leave(p) \/ Crash(p)
    BY <2>6, Targets DEF LockRead, Leave
  <2>7. ~Acquire(p) /\ ~Release(p) /\ \A o \in Ops : ~Call(p, o)
    BY DEF Acquire, Release, Call, InCall, Monitor
  <2> QED BY <2>1, <2>2, <2>3, <2>4, <2>5, <2>6, <2>7 DEF StepOf, Step
<1>2. pc[p] \in {"waitE", "body", "openW", "waitW", "clear", "fill", "unlinkL",
                "unlinkE", "openR", "waitR", "leave"}
  BY DEF InCall, Monitor
<1> QED BY <1>1, <1>2 DEF Ahead

(* Each operation takes at most nine steps, whatever the others do: with   *)
(* WaitsEnd, some operation gets to its end as long as readers end.        *)
THEOREM OperationsAreFinite == Spec => OperationsShrink
<1>1. ASSUME TypeOK, [Next]_vars, NEW p \in Procs, pc[p] \in InCall
      PROVE  \/ Ahead(pc'[p]) < Ahead(pc[p])
             \/ /\ pc'[p] = pc[p] /\ op'[p] = op[p] /\ lockMode'[p] = lockMode[p]
                /\ lockFd'[p] = lockFd[p] /\ entryFd'[p] = entryFd[p]
  <2>1. CASE UNCHANGED vars
    BY <2>1 DEF vars
  <2>2. ASSUME NEW q \in Procs, StepOf(q), q # p
        PROVE  /\ pc'[p] = pc[p] /\ op'[p] = op[p] /\ lockMode'[p] = lockMode[p]
               /\ lockFd'[p] = lockFd[p] /\ entryFd'[p] = entryFd[p]
    BY <1>1, <2>2, OthersKept
  <2>3. CASE StepOf(p)
    BY <1>1, <2>3, AheadStep
  <2> QED BY <1>1, <2>1, <2>2, <2>3 DEF Next, StepOf
<1>2. IInv /\ [Next]_vars =>
        [\A p \in Procs : pc[p] \in InCall =>
           \/ Ahead(pc'[p]) < Ahead(pc[p])
           \/ /\ pc'[p] = pc[p] /\ op'[p] = op[p] /\ lockMode'[p] = lockMode[p]
              /\ lockFd'[p] = lockFd[p] /\ entryFd'[p] = entryFd[p]]_vars
  BY <1>1 DEF IInv
<1> QED BY <1>2, Invariant, PTL DEF Spec, OperationsShrink
=============================================================================
