---------------------------- MODULE EventSpool ----------------------------
(***************************************************************************)
(* The event spool between the status hooks (status-runtime.mjs, one short *)
(* process per hook event) and the watcher (crates/watch).  Hooks take a   *)
(* lock file, rotate the spool when the next record would not fit, append  *)
(* one record and release; the watcher polls the path every 200 ms and     *)
(* never takes the lock.  Every file-system call is a step of its own.     *)
(*                                                                         *)
(* A record is two pieces, its head and the tail that ends the line, since *)
(* writeAll may need several writes; files are inodes, and an inode nobody *)
(* refers to can be given to the next file.                                *)
(***************************************************************************)
EXTENDS Integers, Sequences, FiniteSets, SequencesExt

CONSTANTS
    Hook,      \* the hook processes; each appends one record, named after it
    Inode,     \* inode numbers
    MaxPieces, \* MAX_SPOOL_BYTES, in pieces
    MayCrash,  \* a hook may be killed while it holds the lock
    MayTear,   \* a write may fail after its first piece (disk full)
    Reuses     \* a freed inode number may be given to the next file

VARIABLES
    pc,       \* where each hook stands in appendProjectedEvent
    lock,     \* the lock file: its owner's token and whether it is over LOCK_STALE_MS
    path,     \* the inode at spoolPath
    prev,     \* the inode at spoolPath.1
    content,  \* the pieces in each inode
    fd,       \* the inode each hook has open
    identity, \* the watcher's FileIdentity
    pos,      \* the watcher's offset
    applied,  \* what this watcher has fed to its machine, in order
    accepted  \* observer: the records whose append returned true, in order

hooks == <<pc, fd, accepted>>
files == <<path, prev, content>>
watcher == <<identity, pos, applied>>
vars == <<hooks, lock, files, watcher>>

None == "none"

ASSUME SpoolAssumption ==
    /\ MaxPieces \in Nat /\ MaxPieces >= 2
    /\ {MayCrash, MayTear, Reuses} \subseteq BOOLEAN
    /\ None \notin Hook \cup Inode
    /\ Cardinality(Inode) >= 3  \* the two paths and the file about to be made

Waiting == {"try", "exists", "unlinking"}
Holding == {"size", "rotate", "unlinkprev", "rename", "open", "head", "tail"}
Releasing == {"release", "unlock"}
Ended == {"done", "killed"}

At(h, step) == pc[h] = step
Goto(h, step) == pc' = [pc EXCEPT ![h] = step]

NewLock(h) == [owner |-> h, stale |-> FALSE]

NoLock == [owner |-> None, stale |-> FALSE]

----------------------------------------------------------------------------
(* acquireLock, removeStaleLock, releaseLock. *)

\* Seeded defect: the lock is opened without O_EXCL.
TryLockShared(h) ==
    /\ At(h, "try")
    /\ lock' = NewLock(h) /\ Goto(h, "size")
    /\ UNCHANGED <<fd, accepted, files, watcher>>

\* One O_CREAT | O_EXCL open.
TryLock(h) ==
    /\ At(h, "try")
    /\ \/ lock = NoLock /\ lock' = NewLock(h) /\ Goto(h, "size")
       \/ lock # NoLock /\ Goto(h, "exists") /\ UNCHANGED lock
    /\ UNCHANGED <<fd, accepted, files, watcher>>

\* The deadline LOCK_WAIT_MS has passed: the event is dropped.
GiveUp(h) ==
    /\ At(h, "try")
    /\ Goto(h, "done")
    /\ UNCHANGED <<fd, accepted, lock, files, watcher>>

\* lstat of the lock file that was there a moment ago.
LookAtLock(h) ==
    /\ At(h, "exists")
    /\ Goto(h, IF lock.stale THEN "unlinking" ELSE "try")
    /\ UNCHANGED <<fd, accepted, lock, files, watcher>>

\* ... and the unlink, of whatever is at that path by now.
RemoveStaleLock(h) ==
    /\ At(h, "unlinking")
    /\ lock' = NoLock /\ Goto(h, "try")
    /\ UNCHANGED <<fd, accepted, files, watcher>>

\* releaseLock closes, and compares the token in the file with its own.
Release(h) ==
    /\ At(h, "release")
    /\ Goto(h, IF lock.owner = h THEN "unlock" ELSE "done")
    /\ fd' = [fd EXCEPT ![h] = None]
    /\ UNCHANGED <<accepted, lock, files, watcher>>

Unlock(h) ==
    /\ At(h, "unlock")
    /\ lock' = NoLock /\ Goto(h, "done")
    /\ UNCHANGED <<fd, accepted, files, watcher>>

\* Ten seconds pass over the lock of a hook that is gone.  A live hook is taken to
\* need less than that (WorkBuddy stops it after ten seconds).
LockAges ==
    /\ lock # NoLock /\ ~lock.stale /\ At(lock.owner, "killed")
    /\ lock' = [lock EXCEPT !.stale = TRUE]
    /\ UNCHANGED <<hooks, files, watcher>>

----------------------------------------------------------------------------
(* rotateIfNeeded and the append. *)

Size(i) == IF i = None THEN 0 ELSE Len(content[i])

\* Seeded defect: the size is compared before the new record is counted.
FitsWithout(i) == Size(i) <= MaxPieces

\* The record fits in the file as it is; a missing file never rotates.
Fits(i) == i = None \/ Size(i) + 2 <= MaxPieces

CheckSize(h) ==
    /\ At(h, "size")
    /\ Goto(h, IF Fits(path) THEN "open" ELSE "rotate")
    /\ UNCHANGED <<fd, accepted, lock, files, watcher>>

LookAtPrevious(h) ==
    /\ At(h, "rotate")
    /\ Goto(h, IF prev = None THEN "rename" ELSE "unlinkprev")
    /\ UNCHANGED <<fd, accepted, lock, files, watcher>>

\* unlinkSync throws when the file is gone; the event is then dropped.
UnlinkPrevious(h) ==
    /\ At(h, "unlinkprev")
    /\ Goto(h, IF prev = None THEN "release" ELSE "rename")
    /\ prev' = None
    /\ UNCHANGED <<fd, accepted, lock, path, content, watcher>>

\* renameSync, which throws when there is nothing at spoolPath.
Rename(h) ==
    /\ At(h, "rename")
    /\ \/ path = None /\ Goto(h, "release") /\ UNCHANGED files
       \/ path # None /\ Goto(h, "open") /\ path' = None /\ prev' = path /\ UNCHANGED content
    /\ UNCHANGED <<fd, accepted, lock, watcher>>

InUse == {path, prev} \cup {fd[h] : h \in Hook}

\* O_CREAT | O_APPEND: the file there is, or a new one in a free inode.
Open(h) ==
    /\ At(h, "open")
    /\ Goto(h, "head")
    /\ \/ path # None /\ fd' = [fd EXCEPT ![h] = path] /\ UNCHANGED files
       \/ /\ path = None
          /\ \E i \in Inode \ InUse :
                /\ Reuses \/ content[i] = <<>>
                /\ fd' = [fd EXCEPT ![h] = i] /\ path' = i
                /\ content' = [content EXCEPT ![i] = <<>>]
          /\ UNCHANGED prev
    /\ UNCHANGED <<accepted, lock, watcher>>

Write(h, pieces) == content' = [content EXCEPT ![fd[h]] = @ \o pieces]

\* The usual case: the whole record goes out in one write.
WriteRecord(h) ==
    /\ At(h, "head")
    /\ Write(h, <<[of |-> h, ends |-> FALSE], [of |-> h, ends |-> TRUE]>>)
    /\ accepted' = Append(accepted, h)
    /\ Goto(h, "release")
    /\ UNCHANGED <<fd, lock, path, prev, watcher>>

\* A short write; the rest follows, or fails.
WriteHead(h) ==
    /\ At(h, "head")
    /\ Write(h, <<[of |-> h, ends |-> FALSE]>>)
    /\ \/ Goto(h, "tail")
       \/ MayTear /\ Goto(h, "release")
    /\ UNCHANGED <<fd, accepted, lock, path, prev, watcher>>

WriteTail(h) ==
    /\ At(h, "tail")
    /\ Write(h, <<[of |-> h, ends |-> TRUE]>>)
    /\ accepted' = Append(accepted, h)
    /\ Goto(h, "release")
    /\ UNCHANGED <<fd, lock, path, prev, watcher>>

Killed(h) ==
    /\ MayCrash /\ pc[h] \in Holding \cup Releasing
    /\ Goto(h, "killed")
    /\ fd' = [fd EXCEPT ![h] = None]
    /\ UNCHANGED <<accepted, lock, files, watcher>>

HookStep(h) ==
    \/ TryLock(h) \/ GiveUp(h) \/ LookAtLock(h) \/ RemoveStaleLock(h)
    \/ CheckSize(h) \/ LookAtPrevious(h) \/ UnlinkPrevious(h) \/ Rename(h)
    \/ Open(h) \/ WriteRecord(h) \/ WriteHead(h) \/ WriteTail(h)
    \/ Release(h) \/ Unlock(h)

----------------------------------------------------------------------------
(* The watcher: read_available and consume. *)

\* The line that ends at piece n is exactly one record; anything else is malformed.
Whole(c, n) ==
    /\ c[n].ends /\ n > 1 /\ c[n - 1] = [of |-> c[n].of, ends |-> FALSE]
    /\ n > 2 => c[n - 2].ends

\* Seeded defect: the offset moves past the partial line.
CompleteGreedy(buf) == Len(buf)

\* Everything up to the last newline; a partial line waits for the next tick.
Complete(buf) == SelectLastInSeq(buf, LAMBDA piece : piece.ends)

\* The elements of S, a finite set of integers, from the least to the greatest.
Ascending(S) == CHOOSE at \in [1..Cardinality(S) -> S] :
                   \A j, k \in 1..Cardinality(S) : j < k => at[j] < at[k]

\* The records consume feeds to the machine.
Consumed(buf) ==
    LET at == Ascending({n \in 1..Complete(buf) : Whole(buf, n)}) IN
    [k \in DOMAIN at |-> buf[at[k]].of]

\* Seeded defect: every poll reads the file from its start.
StartAnew(i) == 0

\* Where reading starts: at the offset, unless the file was replaced or shrank.
Start(i) == IF (identity # None /\ identity # i) \/ Size(i) < pos THEN 0 ELSE pos

Poll ==
    /\ path # None
    /\ LET buf == SubSeq(content[path], Start(path) + 1, Size(path)) IN
       /\ pos' = Start(path) + Complete(buf)
       /\ applied' = applied \o Consumed(buf)
    /\ identity' = path
    /\ UNCHANGED <<hooks, lock, files>>

\* The application restarts with a new Machine and reads the spool from its start.
WatcherRestarts ==
    /\ identity' = None /\ pos' = 0 /\ applied' = <<>>
    /\ UNCHANGED <<hooks, lock, files>>

Init ==
    /\ pc = [h \in Hook |-> "try"]
    /\ fd = [h \in Hook |-> None]
    /\ lock = NoLock /\ path = None /\ prev = None
    /\ content = [i \in Inode |-> <<>>]
    /\ identity = None /\ pos = 0 /\ applied = <<>> /\ accepted = <<>>

Next ==
    \/ \E h \in Hook : HookStep(h) \/ Killed(h)
    \/ LockAges
    \/ Poll
    \/ WatcherRestarts

SpoolSpec == Init /\ [][Next]_vars

\* The watcher's loop never stops; nothing is assumed of the hooks.
FairSpoolSpec == SpoolSpec /\ WF_vars(Poll)

----------------------------------------------------------------------------
(* Properties. *)

Records == {applied, accepted}

\* Who holds the lock owns an inode only while it writes, and nothing is recorded twice.
SpoolTypeOK ==
    /\ pc \in [Hook -> Waiting \cup Holding \cup Releasing \cup Ended]
    /\ lock \in [owner : Hook \cup {None}, stale : BOOLEAN]
    /\ {path, prev, identity} \cup {fd[h] : h \in Hook} \subseteq Inode \cup {None}
    /\ \A i \in Inode : content[i] \in Seq([of : Hook, ends : BOOLEAN])
    /\ pos \in Nat /\ \A r \in Records : r \in Seq(Hook) /\ IsInjective(r)

\* No hook has been killed; what may happen after one has is told in README.md.
Undisturbed == \A h \in Hook : ~At(h, "killed")

\* "Concurrent writers coordinate through an exclusive short-lived lock" (the
\* plugin's README): no two hooks are between taking the lock and releasing it.
LockIsExclusive ==
    Undisturbed =>
       \A g, h \in Hook : pc[g] \in Holding /\ pc[h] \in Holding => g = h

\* Growth is bounded to MAX_SPOOL_BYTES per file; a check of the size that another
\* hook's append overtakes would break it.
GrowthIsBounded == Undisturbed => \A i \in {path, prev} \ {None} : Size(i) <= MaxPieces

\* What the lock is for: one writer at a time, and a file that no two of them have
\* found small enough.
SpoolInv ==
    /\ SpoolTypeOK
    /\ LockIsExclusive
    /\ GrowthIsBounded

\* The watcher feeds its machine records in the order in which they were appended,
\* and none of them twice: an offset kept across a rotation, or lost without one,
\* would replay or reorder them.
AppliedInOrder ==
    \A j, k \in 1..Len(applied) : j < k =>
        \A m, n \in 1..Len(accepted) :
            accepted[m] = applied[j] /\ accepted[n] = applied[k] => m < n

\* The records of the file at spoolPath that stand on a line of their own.
Readable == IF path = None THEN {}
            ELSE {content[path][n].of : n \in {m \in 1..Size(path) : Whole(content[path], m)}}

\* Every record that was appended reaches the machine ("safe against partial lines
\* and rotation"), unless a torn neighbour made its line unreadable or its file was
\* rotated away before the watcher came round.
EveryRecordIsApplied ==
    \A h \in Hook : (h \in Readable) ~> (h \in ToSet(applied) \/ h \notin Readable)
=============================================================================
