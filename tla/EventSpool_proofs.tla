------------------------- MODULE EventSpool_proofs -------------------------
(***************************************************************************)
(* Proofs about EventSpool, for any hooks, inodes and sizes, whether or    *)
(* not hooks are killed, writes torn or inode numbers given out again: as  *)
(* long as no hook is killed the lock has one holder and no file outgrows  *)
(* its bound, and in every case the watcher feeds its machine records in   *)
(* the order in which they were appended, none of them twice.              *)
(***************************************************************************)
EXTENDS EventSpool, FiniteSetTheorems, SequenceTheorems, WellFoundedInduction, TLAPS

-----------------------------------------------------------------------------
(***************************************************************************)
(* The inductive invariant.                                                *)
(***************************************************************************)

Piece == [of : Hook, ends : BOOLEAN]

\* SpoolTypeOK without what it says of repetitions, and with the open file of a writer.
TInv ==
    /\ pc \in [Hook -> Waiting \cup Holding \cup Releasing \cup Ended]
    /\ lock \in [owner : Hook \cup {None}, stale : BOOLEAN]
    /\ {path, prev, identity} \subseteq Inode \cup {None}
    /\ fd \in [Hook -> Inode \cup {None}]
    /\ content \in [Inode -> Seq(Piece)]
    /\ pos \in Nat /\ applied \in Seq(Hook) /\ accepted \in Seq(Hook)
    /\ \A h \in Hook : pc[h] \in {"head", "tail"} => fd[h] \in Inode

\* Without a dead hook no lock grows stale, nobody removes one, and who is past
\* acquireLock owns it until its own releaseLock.
LockInv ==
    Undisturbed =>
       /\ ~lock.stale
       /\ \A h \in Hook : ~At(h, "unlinking")
       /\ \A h \in Hook : pc[h] \in Holding \cup Releasing => lock.owner = h

\* The room that was found by CheckSize, or made by the rotation, is still there.
RoomInv ==
    Undisturbed =>
       /\ \A i \in {path, prev} \ {None} : Size(i) <= MaxPieces
       /\ \A h \in Hook : At(h, "open") => Fits(path)
       /\ \A h \in Hook : At(h, "head") => Size(fd[h]) + 2 <= MaxPieces
       /\ \A h \in Hook : At(h, "tail") => Size(fd[h]) + 1 <= MaxPieces

\* In the sequence a of records: x is there, and x comes before y.
IsIn(a, x) == \E m \in 1..Len(a) : a[m] = x
Before(a, x, y) == \A m, n \in 1..Len(a) : a[m] = x /\ a[n] = y => m < n

\* A line ends where its record was accepted, whatever was written in between.
LinesInv ==
    /\ \A m, n \in 1..Len(accepted) : accepted[m] = accepted[n] => m = n
    /\ \A h \in Hook : IsIn(accepted, h) => pc[h] \in Releasing \cup Ended
    /\ \A i \in Inode : \A n \in 1..Len(content[i]) :
          content[i][n].ends => IsIn(accepted, content[i][n].of)
    /\ \A i \in Inode : \A m, n \in 1..Len(content[i]) :
          m < n /\ content[i][m].ends /\ content[i][n].ends
             => Before(accepted, content[i][m].of, content[i][n].of)

\* What the watcher has applied, and what it has not read of the file at spoolPath.
OrderInv ==
    /\ \A j \in 1..Len(applied) : IsIn(accepted, applied[j])
    /\ \A j, k \in 1..Len(applied) : j < k => Before(accepted, applied[j], applied[k])
    /\ path # None =>
          \A j \in 1..Len(applied), n \in 1..Len(content[path]) :
             Start(path) < n /\ content[path][n].ends => Before(accepted, applied[j], content[path][n].of)

SInv == TInv /\ LockInv /\ RoomInv /\ LinesInv /\ OrderInv

-----------------------------------------------------------------------------
(***************************************************************************)
(* What consume returns.                                                   *)
(***************************************************************************)

\* A set of natural numbers that is not empty has a least element.
LEMMA LeastExists ==
    ASSUME NEW T \in SUBSET Nat, T # {}
    PROVE  \E x \in T : \A y \in T : x <= y
<1>1. PICK x \in T : \A y \in T : ~ (<<y, x>> \in OpToRel(<, Nat))
  BY WFMin, NatLessThanWellFounded
<1>2. \A y \in T : ~ (y < x)
  BY <1>1 DEF OpToRel
<1> QED BY <1>2

LEMMA PlacesAreFinite ==
    ASSUME NEW N \in Nat, NEW S \in SUBSET (1..N)
    PROVE  IsFiniteSet(S) /\ Cardinality(S) \in Nat
<1>1. IsFiniteSet(1..N)
  BY FS_Interval
<1>2. IsFiniteSet(S)
  BY <1>1, FS_Subset
<1> QED BY <1>2, FS_CardinalityType

\* A set of places has an ascending enumeration.
Enumerates(at, W) ==
    /\ at \in [1..Cardinality(W) -> W]
    /\ \A j, k \in 1..Cardinality(W) : j < k => at[j] < at[k]

\* One more place, behind all others.
LEMMA EnumerateOneMore ==
    ASSUME NEW W \in SUBSET Nat, IsFiniteSet(W), NEW n \in W, \A m \in W : m <= n,
           NEW at, Enumerates(at, W \ {n})
    PROVE  \E b : Enumerates(b, W)
<1> DEFINE c == Cardinality(W)
           b == [k \in 1..c |-> IF k = c THEN n ELSE at[k]]
<1>1. c \in Nat /\ c > 0 /\ Cardinality(W \ {n}) = c - 1
  <2>1. c \in Nat /\ Cardinality(W \ {n}) = c - 1
    BY FS_CardinalityType, FS_RemoveElement
  <2>2. c # 0
    BY FS_EmptySet
  <2> QED BY <2>1, <2>2
<1> HIDE DEF c
<1>2. at \in [1..(c - 1) -> W \ {n}] /\ \A j, k \in 1..(c - 1) : j < k => at[j] < at[k]
  BY <1>1 DEF Enumerates
<1>3. b \in [1..c -> W]
  BY <1>1, <1>2
<1>4. ASSUME NEW j \in 1..c, NEW k \in 1..c, j < k PROVE b[j] < b[k]
  <2>0. j \in 1..(c - 1) /\ j # c
    BY <1>1, <1>4
  <2>1. b[j] = at[j] /\ at[j] \in W /\ at[j] # n
    BY <1>2, <2>0
  <2>9. at[j] \in Nat /\ n \in Nat /\ at[j] < n
    <3>1. ASSUME NEW m \in W, m # n PROVE m \in Nat /\ n \in Nat /\ m < n
      <4>1. m \in Nat /\ n \in Nat /\ m <= n
        OBVIOUS
      <4> QED BY <3>1, <4>1
    <3> HIDE DEF b
    <3> QED BY <2>1, <3>1
  <2>2. CASE k = c
    BY <2>1, <2>2, <2>9
  <2>3. CASE k # c
    <3>1. k \in 1..(c - 1)
      BY <1>1, <2>3
    <3> QED BY <1>2, <1>4, <2>0, <2>1, <2>3, <3>1
  <2> QED BY <2>2, <2>3
<1> QED BY <1>3, <1>4 DEF Enumerates, c

\* By the least bound for which the places below it had none.
LEMMA AscendingExists ==
    ASSUME NEW N \in Nat, NEW S \in SUBSET (1..N)
    PROVE  \E at : Enumerates(at, S)
<1> DEFINE Bad == {n \in Nat : \E W \in SUBSET (1..n) : \A at : ~Enumerates(at, W)}
<1>1. ASSUME Bad # {} PROVE FALSE
  <2>1. PICK n \in Bad : \A m \in Bad : n <= m
    BY <1>1, LeastExists
  <2>2. PICK W \in SUBSET (1..n) : \A at : ~Enumerates(at, W)
    BY <2>1
  <2>3. n \in Nat
    BY <2>1
  <2>4. IsFiniteSet(W)
    BY <2>3, PlacesAreFinite
  <2>5. W # {}
    <3>1. Enumerates(<<>>, {})
      BY FS_EmptySet DEF Enumerates
    <3> QED BY <3>1, <2>2
  <2>6. n > 0 /\ n - 1 \in Nat /\ n - 1 \notin Bad
    <3>1. n > 0
      <4>1. PICK w \in W : TRUE
        BY <2>5
      <4>2. w \in 1..n
        BY <4>1
      <4> QED BY <2>3, <4>2
    <3>2. n - 1 \in Nat /\ n - 1 < n
      BY <2>3, <3>1
    <3> QED BY <2>1, <3>1, <3>2
  <2>7. n \in W
    <3>1. CASE n \notin W
      <4>1. W \in SUBSET (1..(n - 1))
        BY <2>3, <3>1
      <4> QED BY <4>1, <2>2, <2>6
    <3> QED BY <3>1
  <2>8. PICK at : Enumerates(at, W \ {n})
    <3>1. W \ {n} \in SUBSET (1..(n - 1))
      BY <2>3
    <3> QED BY <3>1, <2>6
  <2>9. W \in SUBSET Nat /\ \A m \in W : m <= n
    BY <2>3
  <2> QED BY <2>2, <2>4, <2>7, <2>8, <2>9, EnumerateOneMore
<1> QED BY <1>1

LEMMA AscendingIsOne ==
    ASSUME NEW N \in Nat, NEW S \in SUBSET (1..N)
    PROVE  Enumerates(Ascending(S), S)
<1>1. \E at \in [1..Cardinality(S) -> S] : \A j, k \in 1..Cardinality(S) : j < k => at[j] < at[k]
  BY AscendingExists DEF Enumerates
<1> QED BY <1>1 DEF Ascending, Enumerates

\* The bytes consumed end with the last newline.
LEMMA CompleteIsLast ==
    ASSUME NEW buf \in Seq(Piece)
    PROVE  /\ Complete(buf) \in 0..Len(buf)
           /\ \A n \in 1..Len(buf) : buf[n].ends => n <= Complete(buf)
<1> DEFINE I == {n \in 1..Len(buf) : buf[n].ends}
           T == {m \in Nat : \E n \in I : m = Len(buf) - n}
<1>1. Len(buf) \in Nat
  OBVIOUS
<1>2. Complete(buf) = IF I # {} THEN Max(I) ELSE 0
  BY DEF Complete, SelectLastInSeq
<1>3. CASE I = {}
  BY <1>1, <1>2, <1>3
<1>4. CASE I # {}
  <2>1. T # {} /\ T \in SUBSET Nat
    <3>1. PICK n \in I : TRUE
      BY <1>4
    <3>2. n \in 1..Len(buf)
      BY <3>1
    <3>3. Len(buf) - n \in Nat
      BY <1>1, <3>2
    <3> QED BY <3>1, <3>3
  <2>2. PICK x \in T : \A y \in T : x <= y
    BY <2>1, LeastExists
  <2>3. PICK n \in I : x = Len(buf) - n
    BY <2>2
  <2>4. ASSUME NEW m \in I PROVE n >= m
    <3>1. m \in 1..Len(buf) /\ n \in 1..Len(buf)
      BY <2>3, <2>4
    <3>2. Len(buf) - m \in T
      BY <1>1, <2>4, <3>1
    <3>3. Len(buf) - n <= Len(buf) - m
      BY <2>2, <2>3, <3>2
    <3> QED BY <1>1, <3>1, <3>3
  <2>5. Max(I) \in I /\ \A m \in I : Max(I) >= m
    BY <2>3, <2>4, Zenon DEF Max
  <2> QED BY <1>1, <1>2, <1>4, <2>5
<1> QED BY <1>3, <1>4

\* Each record that is fed to the machine is the one of a line, in the order of lines.
LEMMA ConsumedIsOrdered ==
    ASSUME NEW buf \in Seq(Piece)
    PROVE  /\ Consumed(buf) \in Seq(Hook)
           /\ \E at \in [1..Len(Consumed(buf)) -> 1..Len(buf)] :
                 /\ \A j, k \in 1..Len(Consumed(buf)) : j < k => at[j] < at[k]
                 /\ \A k \in 1..Len(Consumed(buf)) :
                       buf[at[k]].ends /\ Consumed(buf)[k] = buf[at[k]].of
<1> DEFINE N == Complete(buf)
           S == {n \in 1..N : Whole(buf, n)}
           at == Ascending(S)
           c == Cardinality(S)
<1>1. N \in Nat /\ N <= Len(buf) /\ Len(buf) \in Nat
  BY CompleteIsLast
<1>2. S \in SUBSET (1..N)
  OBVIOUS
<1>3. Enumerates(at, S)
  BY <1>1, <1>2, AscendingIsOne
<1>4. c \in Nat
  BY <1>1, <1>2, PlacesAreFinite
<1>5. \A n \in S : n \in 1..Len(buf) /\ buf[n].ends /\ buf[n].of \in Hook
  BY <1>1 DEF Whole, Piece
<1>6. Consumed(buf) = [k \in DOMAIN at |-> buf[at[k]].of]
  BY DEF Consumed
<1> HIDE DEF N, S, at, c
<1>7. at \in [1..c -> S] /\ \A j, k \in 1..c : j < k => at[j] < at[k]
  BY <1>3 DEF Enumerates, c
<1>8. Consumed(buf) = [k \in 1..c |-> buf[at[k]].of]
  BY <1>6, <1>7
<1>9. \A k \in 1..c : at[k] \in 1..Len(buf) /\ buf[at[k]].ends /\ buf[at[k]].of \in Hook
  BY <1>5, <1>7
<1>10. Consumed(buf) \in Seq(Hook) /\ Len(Consumed(buf)) = c
  BY <1>4, <1>8, <1>9
<1>11. at \in [1..c -> 1..Len(buf)]
  BY <1>7, <1>9
<1> QED BY <1>7, <1>8, <1>9, <1>10, <1>11

-----------------------------------------------------------------------------
(***************************************************************************)
(* Types.                                                                  *)
(***************************************************************************)

Stands == Waiting \cup Holding \cup Releasing \cup Ended

LEMMA StandsHold ==
    ASSUME TInv, [Next]_vars
    PROVE  pc' \in [Hook -> Stands]
<1> pc \in [Hook -> Stands]
  BY DEF TInv, Stands
<1> USE DEF Goto, At, Stands, Waiting, Holding, Releasing, Ended
<1>1. ASSUME NEW h \in Hook, HookStep(h) \/ Killed(h) PROVE pc' \in [Hook -> Stands]
  <2>1. CASE TryLock(h) \/ GiveUp(h) \/ LookAtLock(h) \/ RemoveStaleLock(h)
    BY <2>1 DEF TryLock, GiveUp, LookAtLock, RemoveStaleLock
  <2>2. CASE CheckSize(h) \/ LookAtPrevious(h) \/ UnlinkPrevious(h) \/ Rename(h)
    BY <2>2 DEF CheckSize, LookAtPrevious, UnlinkPrevious, Rename
  <2>3. CASE Open(h) \/ WriteRecord(h) \/ WriteHead(h) \/ WriteTail(h)
    BY <2>3 DEF Open, WriteRecord, WriteHead, WriteTail
  <2>4. CASE Release(h) \/ Unlock(h) \/ Killed(h)
    BY <2>4 DEF Release, Unlock, Killed
  <2> QED BY <1>1, <2>1, <2>2, <2>3, <2>4 DEF HookStep
<1>2. ASSUME LockAges \/ Poll \/ WatcherRestarts \/ UNCHANGED vars PROVE pc' \in [Hook -> Stands]
  BY <1>2 DEF LockAges, Poll, WatcherRestarts, hooks, vars
<1> QED BY <1>1, <1>2 DEF Next

LEMMA LockTypeHolds ==
    ASSUME TInv, [Next]_vars
    PROVE  lock' \in [owner : Hook \cup {None}, stale : BOOLEAN]
<1> lock \in [owner : Hook \cup {None}, stale : BOOLEAN]
  BY DEF TInv
<1>1. ASSUME NEW h \in Hook, HookStep(h) \/ Killed(h)
      PROVE  lock' \in [owner : Hook \cup {None}, stale : BOOLEAN]
  <2>1. lock' = lock \/ lock' = NewLock(h) \/ lock' = NoLock
    BY <1>1 DEF HookStep, TryLock, GiveUp, LookAtLock, RemoveStaleLock, CheckSize,
       LookAtPrevious, UnlinkPrevious, Rename, Open, WriteRecord, WriteHead, WriteTail,
       Release, Unlock, Killed
  <2>2. /\ NewLock(h) \in [owner : Hook \cup {None}, stale : BOOLEAN]
        /\ NoLock \in [owner : Hook \cup {None}, stale : BOOLEAN]
    BY DEF NewLock, NoLock
  <2> QED BY <2>1, <2>2
<1>2. ASSUME LockAges PROVE lock' \in [owner : Hook \cup {None}, stale : BOOLEAN]
  BY <1>2 DEF LockAges
<1>3. ASSUME Poll \/ WatcherRestarts \/ UNCHANGED vars PROVE lock' = lock
  BY <1>3 DEF Poll, WatcherRestarts, vars
<1> QED BY <1>1, <1>2, <1>3 DEF Next

\* The files, and what is in them.
LEMMA FilesHold ==
    ASSUME TInv, [Next]_vars
    PROVE  /\ path' \in Inode \cup {None} /\ prev' \in Inode \cup {None}
           /\ content' \in [Inode -> Seq(Piece)]
<1>0. /\ path \in Inode \cup {None} /\ prev \in Inode \cup {None}
      /\ content \in [Inode -> Seq(Piece)]
  BY DEF TInv
<1>1. ASSUME NEW h \in Hook, UnlinkPrevious(h) \/ Rename(h)
      PROVE  /\ path' \in Inode \cup {None} /\ prev' \in Inode \cup {None}
             /\ content' = content
  BY <1>0, <1>1 DEF UnlinkPrevious, Rename, files
<1>2. ASSUME NEW h \in Hook, Open(h)
      PROVE  /\ path' \in Inode \cup {None} /\ prev' = prev
             /\ content' \in [Inode -> Seq(Piece)]
  <2>1. prev' = prev /\ (UNCHANGED files \/ \E i \in Inode : path' = i /\ content' = [content EXCEPT ![i] = <<>>])
    BY <1>2 DEF Open, files
  <2>2. CASE UNCHANGED files
    BY <1>0, <2>2 DEF files
  <2>3. ASSUME NEW i \in Inode, path' = i, content' = [content EXCEPT ![i] = <<>>]
        PROVE  path' \in Inode \cup {None} /\ content' \in [Inode -> Seq(Piece)]
    <3>1. <<>> \in Seq(Piece)
      BY EmptySeq
    <3> QED BY <1>0, <2>3, <3>1
  <2> QED BY <2>1, <2>2, <2>3
<1>3. ASSUME NEW h \in Hook, WriteRecord(h) \/ WriteHead(h) \/ WriteTail(h)
      PROVE  path' = path /\ prev' = prev /\ content' \in [Inode -> Seq(Piece)]
  <2>1. fd[h] \in Inode /\ path' = path /\ prev' = prev
    BY <1>3 DEF TInv, At, WriteRecord, WriteHead, WriteTail
  <2>2. \E pieces \in Seq(Piece) : Write(h, pieces)
    <3>1. [of |-> h, ends |-> FALSE] \in Piece /\ [of |-> h, ends |-> TRUE] \in Piece
      BY DEF Piece
    <3>2. /\ <<[of |-> h, ends |-> FALSE], [of |-> h, ends |-> TRUE]>> \in Seq(Piece)
          /\ <<[of |-> h, ends |-> FALSE]>> \in Seq(Piece)
          /\ <<[of |-> h, ends |-> TRUE]>> \in Seq(Piece)
      BY <3>1
    <3> QED BY <1>3, <3>2 DEF WriteRecord, WriteHead, WriteTail
  <2>3. PICK pieces \in Seq(Piece) : content' = [content EXCEPT ![fd[h]] = @ \o pieces]
    BY <2>2 DEF Write
  <2>4. content[fd[h]] \o pieces \in Seq(Piece)
    BY <1>0, <2>1
  <2> QED BY <1>0, <2>1, <2>3, <2>4
<1>4. ASSUME NEW h \in Hook, HookStep(h) \/ Killed(h)
      PROVE  \/ UnlinkPrevious(h) \/ Rename(h) \/ Open(h)
             \/ WriteRecord(h) \/ WriteHead(h) \/ WriteTail(h) \/ UNCHANGED files
  BY <1>4 DEF HookStep, TryLock, GiveUp, LookAtLock, RemoveStaleLock, CheckSize,
     LookAtPrevious, Release, Unlock, Killed
<1>5. ASSUME LockAges \/ Poll \/ WatcherRestarts \/ UNCHANGED vars PROVE UNCHANGED files
  BY <1>5 DEF LockAges, Poll, WatcherRestarts, vars
<1>6. CASE UNCHANGED files
  BY <1>0, <1>6 DEF files
<1> QED BY <1>0, <1>1, <1>2, <1>3, <1>4, <1>5, <1>6 DEF Next

\* A hook that writes has a file open.
LEMMA FilesAreOpen ==
    ASSUME TInv, [Next]_vars
    PROVE  /\ fd' \in [Hook -> Inode \cup {None}]
           /\ \A h \in Hook : pc'[h] \in {"head", "tail"} => fd'[h] \in Inode
<1>0. /\ fd \in [Hook -> Inode \cup {None}]
      /\ \A h \in Hook : pc[h] \in {"head", "tail"} => fd[h] \in Inode
      /\ pc \in [Hook -> Stands]
      /\ path \in Inode \cup {None}
  BY DEF TInv, Stands
<1> USE DEF Goto, At
<1>1. ASSUME NEW h \in Hook, Open(h)
      PROVE  /\ fd' \in [Hook -> Inode \cup {None}]
             /\ \A g \in Hook : pc'[g] \in {"head", "tail"} => fd'[g] \in Inode
  <2>1. \E i \in Inode : fd' = [fd EXCEPT ![h] = i]
    BY <1>0, <1>1 DEF Open
  <2>2. pc' = [pc EXCEPT ![h] = "head"]
    BY <1>1 DEF Open
  <2> QED BY <1>0, <2>1, <2>2
<1>2. ASSUME NEW h \in Hook, Release(h) \/ Killed(h)
      PROVE  /\ fd' \in [Hook -> Inode \cup {None}]
             /\ \A g \in Hook : pc'[g] \in {"head", "tail"} => fd'[g] \in Inode
  <2>1. fd' = [fd EXCEPT ![h] = None]
    BY <1>2 DEF Release, Killed
  <2>2. \E s \in {"unlock", "done", "killed"} : pc' = [pc EXCEPT ![h] = s]
    BY <1>2 DEF Release, Killed
  <2> QED BY <1>0, <2>1, <2>2
<1>3. ASSUME NEW h \in Hook, WriteRecord(h) \/ WriteHead(h) \/ WriteTail(h)
      PROVE  fd' = fd /\ \A g \in Hook : pc'[g] \in {"head", "tail"} => fd'[g] \in Inode
  <2>1. fd' = fd /\ fd[h] \in Inode
    BY <1>0, <1>3 DEF WriteRecord, WriteHead, WriteTail
  <2>2. \A g \in Hook : g # h => pc'[g] = pc[g]
    BY <1>0, <1>3 DEF WriteRecord, WriteHead, WriteTail
  <2> QED BY <1>0, <2>1, <2>2
<1>4. ASSUME NEW h \in Hook, HookStep(h), ~Open(h), ~Release(h),
             ~WriteRecord(h), ~WriteHead(h), ~WriteTail(h)
      PROVE  fd' = fd /\ \A g \in Hook : pc'[g] \in {"head", "tail"} => pc'[g] = pc[g]
  BY <1>0, <1>4 DEF HookStep, TryLock, GiveUp, LookAtLock, RemoveStaleLock, CheckSize,
     LookAtPrevious, UnlinkPrevious, Rename, Unlock
<1>5. ASSUME LockAges \/ Poll \/ WatcherRestarts \/ UNCHANGED vars PROVE fd' = fd /\ pc' = pc
  BY <1>5 DEF LockAges, Poll, WatcherRestarts, hooks, vars
<1> QED BY <1>0, <1>1, <1>2, <1>3, <1>4, <1>5 DEF Next

\* What a poll reads, and where.
LEMMA PollReads ==
    ASSUME TInv, Poll
    PROVE  /\ path \in Inode /\ content[path] \in Seq(Piece)
           /\ Start(path) \in 0..Len(content[path]) /\ Len(content[path]) \in Nat
           /\ \E buf \in Seq(Piece) :
                 /\ Len(buf) = Len(content[path]) - Start(path)
                 /\ \A n \in 1..Len(buf) : buf[n] = content[path][Start(path) + n]
                 /\ pos' = Start(path) + Complete(buf)
                 /\ applied' = applied \o Consumed(buf)
<1>1. path \in Inode /\ content[path] \in Seq(Piece) /\ pos \in Nat
  BY DEF TInv, Poll
<1>2. Size(path) = Len(content[path]) /\ Len(content[path]) \in Nat
  BY <1>1, SpoolAssumption DEF Size
<1>3. Start(path) \in 0..Len(content[path])
  BY <1>1, <1>2 DEF Start
<1> DEFINE s == Start(path)
           L == Len(content[path])
           buf == SubSeq(content[path], s + 1, L)
<1>4. pos' = s + Complete(buf) /\ applied' = applied \o Consumed(buf)
  BY <1>2 DEF Poll
<1>5. \A i \in (s + 1)..L : content[path][i] \in Piece
  BY <1>1, <1>2, <1>3
<1> HIDE DEF s, L
<1>6. s \in 0..L /\ L \in Nat
  BY <1>2, <1>3 DEF s, L
<1>7. buf \in Seq(Piece) /\ Len(buf) = L - s /\ \A n \in 1..Len(buf) : buf[n] = content[path][s + n]
  <2>1. /\ buf \in Seq(Piece)
        /\ Len(buf) = (IF s + 1 <= L THEN L - (s + 1) + 1 ELSE 0)
        /\ \A i \in 1..(L - (s + 1) + 1) : buf[i] = content[path][(s + 1) + i - 1]
    BY <1>5, <1>6, SubSeqProperties
  <2> QED BY <1>6, <2>1
<1> HIDE DEF buf
<1> QED BY <1>1, <1>3, <1>4, <1>6, <1>7 DEF s, L

LEMMA WatcherHolds ==
    ASSUME TInv, [Next]_vars
    PROVE  identity' \in Inode \cup {None} /\ pos' \in Nat /\ applied' \in Seq(Hook)
<1>0. identity \in Inode \cup {None} /\ pos \in Nat /\ applied \in Seq(Hook)
  BY DEF TInv
<1>1. CASE Poll
  <2>1. PICK buf \in Seq(Piece) : pos' = Start(path) + Complete(buf) /\ applied' = applied \o Consumed(buf)
    BY <1>1, PollReads
  <2>2. path \in Inode /\ Start(path) \in Nat
    BY <1>1, PollReads
  <2>3. Complete(buf) \in Nat /\ Consumed(buf) \in Seq(Hook)
    BY CompleteIsLast, ConsumedIsOrdered
  <2>4. identity' = path
    BY <1>1 DEF Poll
  <2> QED BY <1>0, <2>1, <2>2, <2>3, <2>4
<1>2. CASE WatcherRestarts
  BY <1>2, EmptySeq DEF WatcherRestarts
<1>3. ASSUME NEW h \in Hook, HookStep(h) \/ Killed(h) PROVE UNCHANGED watcher
  BY <1>3 DEF HookStep, TryLock, GiveUp, LookAtLock, RemoveStaleLock, CheckSize,
     LookAtPrevious, UnlinkPrevious, Rename, Open, WriteRecord, WriteHead, WriteTail,
     Release, Unlock, Killed
<1>4. ASSUME LockAges \/ UNCHANGED vars PROVE UNCHANGED watcher
  BY <1>4 DEF LockAges, vars
<1>5. CASE UNCHANGED watcher
  BY <1>0, <1>5 DEF watcher
<1> QED BY <1>1, <1>2, <1>3, <1>4, <1>5 DEF Next

LEMMA AcceptedHolds ==
    ASSUME TInv, [Next]_vars
    PROVE  accepted' \in Seq(Hook)
<1>0. accepted \in Seq(Hook)
  BY DEF TInv
<1>1. ASSUME NEW h \in Hook, WriteRecord(h) \/ WriteTail(h) PROVE accepted' = Append(accepted, h)
  BY <1>1 DEF WriteRecord, WriteTail
<1>2. ASSUME NEW h \in Hook, HookStep(h) \/ Killed(h), ~WriteRecord(h), ~WriteTail(h)
      PROVE  accepted' = accepted
  BY <1>2 DEF HookStep, TryLock, GiveUp, LookAtLock, RemoveStaleLock, CheckSize,
     LookAtPrevious, UnlinkPrevious, Rename, Open, WriteHead, Release, Unlock, Killed
<1>3. ASSUME LockAges \/ Poll \/ WatcherRestarts \/ UNCHANGED vars PROVE accepted' = accepted
  BY <1>3 DEF LockAges, Poll, WatcherRestarts, vars, hooks
<1> QED BY <1>0, <1>1, <1>2, <1>3 DEF Next

LEMMA TypesHold ==
    ASSUME TInv, [Next]_vars
    PROVE  TInv'
<1>1. pc' \in [Hook -> Waiting \cup Holding \cup Releasing \cup Ended]
  BY StandsHold DEF Stands
<1> QED
  BY <1>1, LockTypeHolds, FilesHold, FilesAreOpen, WatcherHolds, AcceptedHolds DEF TInv

-----------------------------------------------------------------------------
(***************************************************************************)
(* The lock.                                                               *)
(***************************************************************************)

\* A hook that was killed stays dead.
LEMMA DeathIsFinal ==
    ASSUME TInv, [Next]_vars, Undisturbed'
    PROVE  Undisturbed
<1> USE DEF TInv, Undisturbed, At, Goto
<1>1. ASSUME NEW g \in Hook, pc[g] = "killed" PROVE pc'[g] = "killed"
  <2>1. ASSUME NEW h \in Hook, HookStep(h) PROVE pc'[g] = pc[g]
    BY <1>1, <2>1 DEF HookStep, TryLock, GiveUp, LookAtLock, RemoveStaleLock, CheckSize,
       LookAtPrevious, UnlinkPrevious, Rename, Open, WriteRecord, WriteHead, WriteTail,
       Release, Unlock
  <2>2. ASSUME NEW h \in Hook, Killed(h) PROVE pc'[g] = "killed"
    BY <1>1, <2>2 DEF Killed
  <2>3. ASSUME LockAges \/ Poll \/ WatcherRestarts \/ UNCHANGED vars PROVE pc'[g] = pc[g]
    BY <2>3 DEF LockAges, Poll, WatcherRestarts, vars, hooks
  <2> QED BY <1>1, <2>1, <2>2, <2>3 DEF Next
<1> QED BY <1>1

\* Who is past acquireLock is the owner.
Owns(h) == pc[h] \in Holding \cup Releasing => lock.owner = h

LEMMA LockIsKept ==
    ASSUME TInv, LockInv, [Next]_vars
    PROVE  LockInv'
<1> SUFFICES ASSUME Undisturbed'
             PROVE  /\ ~lock'.stale
                    /\ \A h \in Hook : pc'[h] # "unlinking"
                    /\ \A h \in Hook : pc'[h] \in Holding \cup Releasing => lock'.owner = h
  BY DEF LockInv, At
<1>0. Undisturbed /\ ~lock.stale
      /\ (\A h \in Hook : pc[h] # "unlinking")
      /\ \A h \in Hook : pc[h] \in Holding \cup Releasing => lock.owner = h
  BY DeathIsFinal DEF LockInv, At
<1> USE DEF TInv, Waiting, Holding, Releasing, Ended, At, Goto
<1>1. CASE \E h \in Hook : TryLock(h)
  BY <1>0, <1>1, SpoolAssumption DEF TryLock, NewLock, NoLock
<1>2. CASE \E h \in Hook : GiveUp(h) \/ LookAtLock(h) \/ RemoveStaleLock(h)
  BY <1>0, <1>2 DEF GiveUp, LookAtLock, RemoveStaleLock
<1>3. CASE \E h \in Hook : CheckSize(h) \/ LookAtPrevious(h) \/ UnlinkPrevious(h) \/ Rename(h) \/ Open(h)
  BY <1>0, <1>3 DEF CheckSize, LookAtPrevious, UnlinkPrevious, Rename, Open
<1>4. CASE \E h \in Hook : WriteRecord(h) \/ WriteHead(h) \/ WriteTail(h)
  BY <1>0, <1>4 DEF WriteRecord, WriteHead, WriteTail
<1>5. CASE \E h \in Hook : Release(h) \/ Unlock(h)
  BY <1>0, <1>5 DEF Release, Unlock, NoLock
<1>6. CASE \E h \in Hook : Killed(h)
  BY <1>6 DEF Killed, Undisturbed
<1>7. CASE LockAges
  <2>1. pc[lock.owner] = "killed" /\ lock.owner \in Hook \cup {None}
    BY <1>7 DEF LockAges, NoLock
  <2>2. lock.owner # None
    BY <1>7 DEF LockAges, NoLock
  <2> QED BY <1>0, <2>1, <2>2 DEF Undisturbed
<1>8. CASE Poll \/ WatcherRestarts \/ UNCHANGED vars
  BY <1>0, <1>8 DEF Poll, WatcherRestarts, vars, hooks
<1> QED
  BY <1>1, <1>2, <1>3, <1>4, <1>5, <1>6, <1>7, <1>8 DEF Next, HookStep

\* What the lock is for: no two hooks are between taking it and releasing it.
LEMMA OneHolder ==
    ASSUME TInv, LockInv
    PROVE  LockIsExclusive
BY DEF TInv, LockInv, LockIsExclusive

-----------------------------------------------------------------------------
(***************************************************************************)
(* The sizes.  A hook that has found or made room is the only one past     *)
(* acquireLock, so nobody fills it before that hook has written.           *)
(***************************************************************************)

\* Size, of the contents c.
Length(c, i) == IF i = None THEN 0 ELSE Len(c[i])

LEMMA LengthOfFile ==
    ASSUME NEW c \in [Inode -> Seq(Piece)], NEW i \in Inode
    PROVE  Length(c, i) = Len(c[i]) /\ Length(c, i) \in Nat
BY SpoolAssumption DEF Length

\* What a write, or a new file, does to the sizes.
LEMMA LengthAfter ==
    ASSUME NEW c \in [Inode -> Seq(Piece)], NEW i \in Inode, NEW new \in Seq(Piece)
    PROVE  /\ Length([c EXCEPT ![i] = new], i) = Len(new)
           /\ \A j \in Inode : j # i => Length([c EXCEPT ![i] = new], j) = Length(c, j)
BY SpoolAssumption DEF Length

RoomFor(p, q, c, f, stand) ==
    /\ \A i \in {p, q} \ {None} : Length(c, i) <= MaxPieces
    /\ \A h \in Hook : stand[h] = "open" => p = None \/ Length(c, p) + 2 <= MaxPieces
    /\ \A h \in Hook : stand[h] = "head" => Length(c, f[h]) + 2 <= MaxPieces
    /\ \A h \in Hook : stand[h] = "tail" => Length(c, f[h]) + 1 <= MaxPieces

LEMMA RoomIsKept ==
    ASSUME TInv, TInv', LockInv, RoomInv, [Next]_vars
    PROVE  RoomInv'
<1> SUFFICES ASSUME Undisturbed' PROVE RoomFor(path', prev', content', fd', pc')
  BY DEF RoomInv, RoomFor, Length, Size, Fits, At
<1> DEFINE Goal == RoomFor(path', prev', content', fd', pc')
<1>0. /\ Undisturbed
      /\ \A g, h \in Hook : pc[g] \in Holding /\ pc[h] \in Holding => g = h
      /\ RoomFor(path, prev, content, fd, pc)
  <2>1. Undisturbed /\ LockIsExclusive
    BY DeathIsFinal, OneHolder
  <2>2. RoomFor(path, prev, content, fd, pc)
    BY <2>1 DEF RoomInv, RoomFor, Length, Size, Fits, At
  <2> QED BY <2>1, <2>2 DEF LockIsExclusive
<1>t. /\ pc \in [Hook -> Stands] /\ fd \in [Hook -> Inode \cup {None}]
      /\ path \in Inode \cup {None} /\ prev \in Inode \cup {None}
      /\ content \in [Inode -> Seq(Piece)]
      /\ MaxPieces \in Nat /\ MaxPieces >= 2 /\ None \notin Inode
  BY SpoolAssumption DEF TInv, Stands
<1>c. content \in [Inode -> Seq(Piece)]
  BY <1>t
<1>m. MaxPieces \in Nat /\ MaxPieces >= 2
  BY <1>t
<1>s. \A i \in Inode : Length(content, i) = Len(content[i]) /\ Length(content, i) \in Nat
  BY <1>t, LengthOfFile
<1> USE DEF Goto, At
<1>1. ASSUME NEW h \in Hook, CheckSize(h) PROVE Goal
  <2>1. /\ path' = path /\ prev' = prev /\ content' = content /\ fd' = fd
        /\ pc' = [pc EXCEPT ![h] = IF Fits(path) THEN "open" ELSE "rotate"]
        /\ Fits(path) <=> path = None \/ Length(content, path) + 2 <= MaxPieces
    BY <1>1 DEF CheckSize, files, Fits, Size, Length
  <2>2. \A g \in Hook : pc'[g] \in {"head", "tail"} => pc'[g] = pc[g]
    BY <1>t, <2>1
  <2>3. \A g \in Hook : pc'[g] = "open" => pc[g] = "open" \/ Fits(path)
    BY <1>t, <2>1
  <2> QED BY <1>0, <2>1, <2>2, <2>3 DEF RoomFor
<1>2. ASSUME NEW h \in Hook, UnlinkPrevious(h) \/ Rename(h) PROVE Goal
  <2>1. /\ content' = content /\ fd' = fd
        /\ {path', prev'} \subseteq {path, prev, None}
        /\ pc[h] \in Holding
        /\ \E s \in {"release", "rename", "open"} :
              pc' = [pc EXCEPT ![h] = s] /\ (s = "open" => path' = None)
    BY <1>2 DEF UnlinkPrevious, Rename, files, Holding
  <2>2. \A g \in Hook : g # h => pc'[g] = pc[g] /\ pc[g] \notin Holding
    BY <1>0, <1>t, <2>1
  <2>3. pc'[h] \in {"release", "rename", "open"} /\ (pc'[h] = "open" => path' = None)
    BY <1>t, <2>1
  <2>4. \A g \in Hook : pc'[g] \notin {"head", "tail"} /\ (pc'[g] = "open" => path' = None)
    BY <2>2, <2>3 DEF Holding
  <2>5. \A i \in {path', prev'} \ {None} : Length(content', i) <= MaxPieces
    BY <1>0, <2>1 DEF RoomFor
  <2> QED BY <2>4, <2>5 DEF RoomFor
<1>3. ASSUME NEW h \in Hook, Open(h) PROVE Goal
  <2>1. pc[h] = "open" /\ pc' = [pc EXCEPT ![h] = "head"]
    BY <1>3 DEF Open
  <2>2. pc'[h] = "head" /\ \A g \in Hook : g # h => pc'[g] = pc[g] /\ pc[g] \notin Holding
    BY <1>0, <1>t, <2>1 DEF Holding
  <2>3. CASE path # None /\ fd' = [fd EXCEPT ![h] = path] /\ UNCHANGED files
    <3>1. Length(content, path) + 2 <= MaxPieces
      BY <1>0, <2>1, <2>3 DEF RoomFor
    <3>2. fd'[h] = path /\ path' = path /\ prev' = prev /\ content' = content
      BY <1>t, <2>3 DEF files
    <3> QED BY <1>0, <2>2, <3>1, <3>2 DEF RoomFor, Holding
  <2>4. ASSUME NEW i \in Inode, fd' = [fd EXCEPT ![h] = i], path' = i, prev' = prev,
               content' = [content EXCEPT ![i] = <<>>]
        PROVE  Goal
    <3>1. <<>> \in Seq(Piece) /\ Len(<<>>) = 0
      BY EmptySeq
    <3> HIDE DEF Goal
    <3>2. Length(content', i) = 0 /\ \A j \in Inode : j # i => Length(content', j) = Length(content, j)
      <4>1. /\ Length([content EXCEPT ![i] = <<>>], i) = Len(<<>>)
            /\ \A j \in Inode : j # i => Length([content EXCEPT ![i] = <<>>], j) = Length(content, j)
        BY <1>c, <3>1, LengthAfter
      <4> QED BY <2>4, <3>1, <4>1
    <3>3. ASSUME NEW j \in {path', prev'} \ {None} PROVE Length(content', j) <= MaxPieces
      <4>1. CASE j = i
        BY <1>m, <3>2, <4>1
      <4>2. CASE j # i
        <5>1. j \in {path, prev} \ {None} /\ j \in Inode
          BY <1>t, <2>4, <3>3, <4>2
        <5>2. Length(content, j) <= MaxPieces
          BY <1>0, <5>1 DEF RoomFor
        <5> QED BY <3>2, <4>2, <5>1, <5>2
      <4> QED BY <4>1, <4>2
    <3>4. fd'[h] = i
      BY <1>t, <2>4
    <3>5. \A g \in Hook : pc'[g] \notin {"open", "tail"} /\ (pc'[g] = "head" => g = h)
      BY <2>2 DEF Holding
    <3>6. 0 + 2 <= MaxPieces
      BY <1>t
    <3> QED BY <3>2, <3>3, <3>4, <3>5, <3>6 DEF RoomFor, Goal
  <2> QED BY <1>3, <2>3, <2>4 DEF Open, files
<1>4. ASSUME NEW h \in Hook, WriteRecord(h) \/ WriteHead(h) \/ WriteTail(h) PROVE Goal
  <2>1. /\ pc[h] \in Holding /\ fd[h] \in Inode
        /\ path' = path /\ prev' = prev /\ fd' = fd
    BY <1>4 DEF TInv, WriteRecord, WriteHead, WriteTail, Holding
  <2>2. ASSUME NEW new \in Seq(Piece), content' = [content EXCEPT ![fd[h]] = @ \o new],
               NEW s \in {"tail", "release"}, pc' = [pc EXCEPT ![h] = s],
               Length(content, fd[h]) + Len(new) + (IF s = "tail" THEN 1 ELSE 0) <= MaxPieces
        PROVE  Goal
    <3>1. content[fd[h]] \in Seq(Piece) /\ Len(content[fd[h]]) = Length(content, fd[h]) /\ Len(new) \in Nat
      BY <1>s, <1>t, <2>1
    <3>2. content[fd[h]] \o new \in Seq(Piece)
          /\ Len(content[fd[h]] \o new) = Length(content, fd[h]) + Len(new)
      BY <3>1
    <3>3. Length(content', fd[h]) = Length(content, fd[h]) + Len(new)
          /\ \A j \in Inode : j # fd[h] => Length(content', j) = Length(content, j)
      <4>1. content' = [content EXCEPT ![fd[h]] = content[fd[h]] \o new]
        BY <2>2
      <4> DEFINE joined == content[fd[h]] \o new
      <4> HIDE DEF Goal, joined
      <4>2. joined \in Seq(Piece) /\ Len(joined) = Length(content, fd[h]) + Len(new)
        BY <3>2 DEF joined
      <4>3. /\ Length([content EXCEPT ![fd[h]] = joined], fd[h]) = Len(joined)
            /\ \A j \in Inode : j # fd[h] => Length([content EXCEPT ![fd[h]] = joined], j) = Length(content, j)
        BY <1>c, <2>1, <4>2, LengthAfter
      <4> QED BY <4>1, <4>2, <4>3 DEF joined
    <3>4. pc'[h] = s /\ \A g \in Hook : g # h => pc'[g] = pc[g] /\ pc[g] \notin Holding
      BY <1>0, <1>t, <2>1, <2>2
    <3>5. \A g \in Hook : pc'[g] \notin {"open", "head"} /\ (pc'[g] = "tail" => g = h)
      BY <3>4 DEF Holding
    <3>6. /\ Length(content', fd[h]) <= MaxPieces
          /\ s = "tail" => Length(content', fd[h]) + 1 <= MaxPieces
      <4>1. Length(content, fd[h]) \in Nat
        BY <1>s, <2>1
      <4> DEFINE l == Length(content, fd[h])
                 k == Len(new)
                 m == Length(content', fd[h])
      <4>2. l \in Nat /\ k \in Nat /\ m = l + k /\ l + k + (IF s = "tail" THEN 1 ELSE 0) <= MaxPieces
        BY <2>2, <3>1, <3>3, <4>1
      <4> HIDE DEF l, k, m, Goal
      <4>3. m <= MaxPieces /\ (s = "tail" => m + 1 <= MaxPieces)
        BY <1>m, <4>2
      <4> QED BY <4>3 DEF m
    <3>7. \A i \in {path', prev'} \ {None} : Length(content', i) <= MaxPieces
      BY <1>0, <1>t, <2>1, <3>3, <3>6 DEF RoomFor
    <3> QED BY <2>1, <3>4, <3>5, <3>6, <3>7 DEF RoomFor
  <2>3. /\ [of |-> h, ends |-> FALSE] \in Piece /\ [of |-> h, ends |-> TRUE] \in Piece
        /\ Length(content, fd[h]) \in Nat
    BY <1>s, <2>1 DEF Piece
  <2>4. CASE WriteRecord(h)
    <3> DEFINE new == <<[of |-> h, ends |-> FALSE], [of |-> h, ends |-> TRUE]>>
    <3>1. new \in Seq(Piece) /\ Len(new) = 2
      BY <2>3
    <3>2. pc[h] = "head" /\ pc' = [pc EXCEPT ![h] = "release"]
          /\ content' = [content EXCEPT ![fd[h]] = @ \o new]
      BY <2>4 DEF WriteRecord, Write
    <3>3. Length(content, fd[h]) + 2 <= MaxPieces
      BY <1>0, <3>2 DEF RoomFor
    <3>4. Length(content, fd[h]) + Len(new) + (IF "release" = "tail" THEN 1 ELSE 0) <= MaxPieces
      <4> HIDE DEF new
      <4> QED BY <1>m, <2>3, <3>1, <3>3
    <3> HIDE DEF new, Goal
    <3> QED BY <2>2, <3>1, <3>2, <3>4
  <2>5. CASE WriteHead(h)
    <3> DEFINE new == <<[of |-> h, ends |-> FALSE]>>
    <3>1. new \in Seq(Piece) /\ Len(new) = 1
      BY <2>3
    <3>2. pc[h] = "head" /\ content' = [content EXCEPT ![fd[h]] = @ \o new]
          /\ \E s \in {"tail", "release"} : pc' = [pc EXCEPT ![h] = s]
      BY <2>5 DEF WriteHead, Write
    <3>3. Length(content, fd[h]) + 2 <= MaxPieces
      BY <1>0, <3>2 DEF RoomFor
    <3>4. PICK s \in {"tail", "release"} : pc' = [pc EXCEPT ![h] = s]
      BY <3>2
    <3>5. Length(content, fd[h]) + 1 + (IF s = "tail" THEN 1 ELSE 0) <= MaxPieces
      BY <1>t, <2>3, <3>3
    <3> HIDE DEF new, Goal
    <3> QED BY <2>2, <3>1, <3>2, <3>4, <3>5
  <2>6. CASE WriteTail(h)
    <3> DEFINE new == <<[of |-> h, ends |-> TRUE]>>
    <3>1. new \in Seq(Piece) /\ Len(new) = 1
      BY <2>3
    <3>2. pc[h] = "tail" /\ pc' = [pc EXCEPT ![h] = "release"]
          /\ content' = [content EXCEPT ![fd[h]] = @ \o new]
      BY <2>6 DEF WriteTail, Write
    <3>3. Length(content, fd[h]) + 1 <= MaxPieces
      BY <1>0, <3>2 DEF RoomFor
    <3>4. Length(content, fd[h]) + Len(new) + (IF "release" = "tail" THEN 1 ELSE 0) <= MaxPieces
      <4> HIDE DEF new
      <4> QED BY <1>m, <2>3, <3>1, <3>3
    <3> HIDE DEF new, Goal
    <3> QED BY <2>2, <3>1, <3>2, <3>4
  <2> QED BY <1>4, <2>4, <2>5, <2>6
<1>5. ASSUME NEW h \in Hook, HookStep(h) \/ Killed(h),
             ~CheckSize(h), ~UnlinkPrevious(h), ~Rename(h), ~Open(h),
             ~WriteRecord(h), ~WriteHead(h), ~WriteTail(h)
      PROVE  Goal
  <2>1. /\ UNCHANGED files
        /\ \A g \in Hook : pc'[g] \in {"open", "head", "tail"} => pc'[g] = pc[g] /\ fd'[g] = fd[g]
    BY <1>5, <1>t DEF HookStep, TryLock, GiveUp, LookAtLock, RemoveStaleLock, LookAtPrevious,
       Release, Unlock, Killed
  <2>2. path' = path /\ prev' = prev /\ content' = content
    BY <2>1 DEF files
  <2> QED BY <1>0, <2>1, <2>2 DEF RoomFor
<1>6. ASSUME LockAges \/ Poll \/ WatcherRestarts \/ UNCHANGED vars PROVE Goal
  <2>1. path' = path /\ prev' = prev /\ fd' = fd /\ pc' = pc /\ content' = content
    BY <1>6 DEF LockAges, Poll, WatcherRestarts, vars, hooks, files
  <2> QED BY <1>0, <2>1
<1> HIDE DEF Goal
<1>7. Goal
  BY <1>1, <1>2, <1>3, <1>4, <1>5, <1>6 DEF Next, HookStep
<1> QED BY <1>7 DEF Goal

-----------------------------------------------------------------------------
(***************************************************************************)
(* The order.  A record is accepted where its line ends, so that the lines *)
(* of a file end in the order of acceptance even when two hooks hold the   *)
(* lock at once and their pieces are mixed.                                *)
(***************************************************************************)

\* A record that is accepted now is the first and last of its hook, and follows all others.
LEMMA AcceptedLast ==
    ASSUME accepted \in Seq(Hook), NEW h \in Hook, ~IsIn(accepted, h), accepted' = Append(accepted, h),
           \A m, n \in 1..Len(accepted) : accepted[m] = accepted[n] => m = n
    PROVE  /\ \A m, n \in 1..Len(accepted') : accepted'[m] = accepted'[n] => m = n
           /\ \A x : IsIn(accepted', x) <=> IsIn(accepted, x) \/ x = h
           /\ \A x, y : x # h /\ y # h => (Before(accepted', x, y) <=> Before(accepted, x, y))
           /\ \A x : IsIn(accepted, x) => Before(accepted', x, h)
<1> DEFINE L == Len(accepted)
<1>1. /\ L \in Nat /\ Len(accepted') = L + 1 /\ accepted'[L + 1] = h
      /\ \A m \in 1..L : accepted'[m] = accepted[m]
  OBVIOUS
<1>2. \A m \in 1..L : accepted[m] # h
  BY DEF IsIn
<1> HIDE DEF L
<1>3. \A m, n \in 1..(L + 1) : accepted'[m] = accepted'[n] => m = n
  <2>1. ASSUME NEW m \in 1..(L + 1), NEW n \in 1..(L + 1), accepted'[m] = accepted'[n] PROVE m = n
    <3>1. CASE m = L + 1 \/ n = L + 1
      <4>1. \A k \in 1..(L + 1) : accepted'[k] = h => k = L + 1
        <5>1. \A k \in 1..(L + 1) : k = L + 1 \/ k \in 1..L
          BY <1>1
        <5> QED BY <1>1, <1>2, <5>1
      <4> QED BY <1>1, <2>1, <3>1, <4>1
    <3>2. CASE m # L + 1 /\ n # L + 1
      <4>1. m \in 1..L /\ n \in 1..L
        BY <1>1, <3>2
      <4> QED BY <1>1, <2>1, <4>1 DEF L
    <3> QED BY <3>1, <3>2
  <2> QED BY <2>1
<1>4. \A x : IsIn(accepted', x) <=> IsIn(accepted, x) \/ x = h
  <2>1. \A k \in 1..(L + 1) : k = L + 1 \/ k \in 1..L
    BY <1>1
  <2>2. L + 1 \in 1..(L + 1) /\ \A k \in 1..L : k \in 1..(L + 1)
    BY <1>1
  <2>3. \A x : IsIn(accepted, x) <=> \E m \in 1..L : accepted[m] = x
    BY DEF IsIn, L
  <2>4. \A x : IsIn(accepted', x) <=> \E m \in 1..(L + 1) : accepted'[m] = x
    BY <1>1 DEF IsIn
  <2> QED BY <1>1, <2>1, <2>2, <2>3, <2>4
<1>5. ASSUME NEW x, NEW y, x # h, y # h PROVE Before(accepted', x, y) <=> Before(accepted, x, y)
  <2>1. \A k \in 1..(L + 1) : k = L + 1 \/ k \in 1..L
    BY <1>1
  <2>2. \A k \in 1..L : k \in 1..(L + 1)
    BY <1>1
  <2>3. Before(accepted, x, y) <=> \A m, n \in 1..L : accepted[m] = x /\ accepted[n] = y => m < n
    BY DEF Before, L
  <2>4. Before(accepted', x, y) <=> \A m, n \in 1..(L + 1) : accepted'[m] = x /\ accepted'[n] = y => m < n
    BY <1>1 DEF Before
  <2> QED BY <1>1, <1>5, <2>1, <2>2, <2>3, <2>4
<1>6. ASSUME NEW x, IsIn(accepted, x) PROVE Before(accepted', x, h)
  <2>1. x # h
    BY <1>6
  <2>2. \A m \in 1..(L + 1) : accepted'[m] = x => m \in 1..L
    BY <1>1, <2>1
  <2>3. \A n \in 1..(L + 1) : accepted'[n] = h => n = L + 1
    BY <1>1, <1>2
  <2>4. \A m, n \in 1..(L + 1) : accepted'[m] = x /\ accepted'[n] = h => m < n
    BY <1>1, <2>2, <2>3
  <2> QED BY <1>1, <2>4 DEF Before
<1> QED BY <1>1, <1>3, <1>4, <1>5, <1>6

\* No line ends that did not end before.
OldLines ==
    \A i \in Inode : \A n \in 1..Len(content'[i]) :
       content'[i][n].ends => n \in 1..Len(content[i]) /\ content'[i][n] = content[i][n]

\* Nothing that was written is lost, and a line may have ended with a piece of h.
NewLine(h) ==
    /\ \A i \in Inode : /\ Len(content[i]) <= Len(content'[i])
                        /\ \A n \in 1..Len(content[i]) : content'[i][n] = content[i][n]
    /\ \A i \in Inode : \A n \in 1..Len(content'[i]) :
          content'[i][n].ends => n \in 1..Len(content[i]) \/ (n > Len(content[i]) /\ n = Len(content'[i]) /\ content'[i][n].of = h)

LEMMA WritesEndLines ==
    ASSUME TInv, NEW h \in Hook
    PROVE  /\ WriteRecord(h) \/ WriteTail(h) => NewLine(h) /\ accepted' = Append(accepted, h)
           /\ WriteHead(h) => NewLine(h) /\ OldLines /\ accepted' = accepted
<1>c. content \in [Inode -> Seq(Piece)]
  BY DEF TInv
<1>1. ASSUME NEW new \in Seq(Piece), fd[h] \in Inode, content' = [content EXCEPT ![fd[h]] = @ \o new],
             \A k \in 1..Len(new) : new[k].ends => k = Len(new) /\ new[k].of = h
      PROVE  /\ NewLine(h)
             /\ (\A k \in 1..Len(new) : ~new[k].ends) => OldLines
  <2> DEFINE f == fd[h]
             old == content[f]
             all == old \o new
  <2>1. old \in Seq(Piece) /\ Len(old) \in Nat /\ Len(new) \in Nat
    BY <1>1, <1>c
  <2>2. /\ Len(all) = Len(old) + Len(new)
        /\ \A n \in 1..Len(old) : all[n] = old[n]
        /\ \A n \in 1..(Len(old) + Len(new)) : n > Len(old) => all[n] = new[n - Len(old)]
    BY <2>1, ConcatProperties
  <2>3. content'[f] = all /\ \A i \in Inode : i # f => content'[i] = content[i]
    BY <1>1, <1>c
  <2>4. \A i \in Inode : Len(content[i]) \in Nat
    BY <1>c
  <2> HIDE DEF all, old
  <2>5. \A n \in 1..Len(all) : n \in 1..Len(old) \/ (n > Len(old) /\ n - Len(old) \in 1..Len(new))
    BY <2>1, <2>2
  <2>6. NewLine(h)
    <3>1. \A i \in Inode : Len(content[i]) <= Len(content'[i])
                           /\ \A n \in 1..Len(content[i]) : content'[i][n] = content[i][n]
      <4>1. Len(content[f]) <= Len(content'[f]) /\ \A n \in 1..Len(content[f]) : content'[f][n] = content[f][n]
        BY <2>1, <2>2, <2>3 DEF old
      <4> QED BY <2>3, <2>4, <4>1
    <3>2. ASSUME NEW n \in 1..Len(all), all[n].ends, n \notin 1..Len(old)
          PROVE  n > Len(old) /\ n = Len(all) /\ all[n].of = h
      <4>1. n > Len(old) /\ n - Len(old) \in 1..Len(new) /\ all[n] = new[n - Len(old)]
        BY <2>1, <2>2, <2>5, <3>2
      <4>2. n - Len(old) = Len(new) /\ all[n].of = h
        BY <1>1, <3>2, <4>1
      <4> QED BY <2>1, <2>2, <4>1, <4>2
    <3>3. ASSUME NEW i \in Inode, NEW n \in 1..Len(content'[i]), content'[i][n].ends, n \notin 1..Len(content[i])
          PROVE  n > Len(content[i]) /\ n = Len(content'[i]) /\ content'[i][n].of = h
      <4>1. i = f
        BY <2>3, <3>3
      <4> QED BY <2>3, <3>2, <3>3, <4>1 DEF old
    <3> QED BY <3>1, <3>3 DEF NewLine
  <2>7. ASSUME \A k \in 1..Len(new) : ~new[k].ends PROVE OldLines
    <3>1. \A n \in 1..Len(all) : all[n].ends => n \in 1..Len(old) /\ all[n] = old[n]
      BY <2>1, <2>2, <2>5, <2>7
    <3> QED BY <2>3, <3>1 DEF OldLines, old
  <2> QED BY <2>6, <2>7
<1>2. pc[h] \in {"head", "tail"} => fd[h] \in Inode
  BY DEF TInv
<1> DEFINE first == [of |-> h, ends |-> FALSE]
           last == [of |-> h, ends |-> TRUE]
<1>3. first \in Piece /\ last \in Piece /\ ~first.ends /\ last.of = h
  BY DEF Piece
<1> HIDE DEF first, last
<1>4. ASSUME WriteRecord(h) PROVE NewLine(h) /\ accepted' = Append(accepted, h)
  <2> DEFINE new == <<first, last>>
  <2>1. new \in Seq(Piece) /\ Len(new) = 2 /\ new[1] = first /\ new[2] = last
    BY <1>3
  <2>2. pc[h] = "head" /\ content' = [content EXCEPT ![fd[h]] = @ \o new] /\ accepted' = Append(accepted, h)
    BY <1>4 DEF WriteRecord, Write, At, first, last
  <2> HIDE DEF new
  <2>3. \A k \in 1..Len(new) : new[k].ends => k = Len(new) /\ new[k].of = h
    <3>1. \A k \in 1..2 : k = 1 \/ k = 2
      OBVIOUS
    <3> QED BY <1>3, <2>1, <3>1
  <2> QED BY <1>1, <1>2, <2>1, <2>2, <2>3
<1>5. ASSUME WriteTail(h) PROVE NewLine(h) /\ accepted' = Append(accepted, h)
  <2> DEFINE new == <<last>>
  <2>1. new \in Seq(Piece) /\ Len(new) = 1 /\ new[1] = last
    BY <1>3
  <2>2. pc[h] = "tail" /\ content' = [content EXCEPT ![fd[h]] = @ \o new] /\ accepted' = Append(accepted, h)
    BY <1>5 DEF WriteTail, Write, At, last
  <2> HIDE DEF new
  <2>3. \A k \in 1..Len(new) : new[k].ends => k = Len(new) /\ new[k].of = h
    BY <1>3, <2>1
  <2> QED BY <1>1, <1>2, <2>1, <2>2, <2>3
<1>6. ASSUME WriteHead(h) PROVE NewLine(h) /\ OldLines /\ accepted' = accepted
  <2> DEFINE new == <<first>>
  <2>1. new \in Seq(Piece) /\ Len(new) = 1 /\ new[1] = first
    BY <1>3
  <2>2. pc[h] = "head" /\ content' = [content EXCEPT ![fd[h]] = @ \o new] /\ accepted' = accepted
    BY <1>6 DEF WriteHead, Write, At, first
  <2> HIDE DEF new
  <2>3. \A k \in 1..Len(new) : ~new[k].ends
    BY <1>3, <2>1
  <2> QED BY <1>1, <1>2, <2>1, <2>2, <2>3
<1> QED BY <1>4, <1>5, <1>6

LEMMA OpenEndsNoLine ==
    ASSUME TInv, NEW h \in Hook, Open(h)
    PROVE  /\ OldLines /\ accepted' = accepted /\ UNCHANGED watcher
           /\ \/ UNCHANGED files
              \/ path' \in Inode /\ content'[path'] = <<>>
<1>c. content \in [Inode -> Seq(Piece)]
  BY DEF TInv
<1>1. UNCHANGED files => OldLines
  BY <1>c DEF files, OldLines
<1>2. ASSUME NEW i \in Inode, path' = i, content' = [content EXCEPT ![i] = <<>>]
      PROVE  OldLines /\ content'[path'] = <<>>
  <2>1. content'[i] = <<>> /\ \A j \in Inode : j # i => content'[j] = content[j]
    BY <1>2, <1>c
  <2>2. Len(<<>>) = 0
    OBVIOUS
  <2>3. \A j \in Inode : \A n \in 1..Len(content'[j]) : j # i
    BY <2>1, <2>2
  <2> QED BY <1>2, <2>1, <2>3 DEF OldLines
<1>3. /\ accepted' = accepted /\ UNCHANGED watcher
      /\ UNCHANGED files \/ \E i \in Inode : path' = i /\ content' = [content EXCEPT ![i] = <<>>]
  BY DEF Open, files
<1> QED BY <1>1, <1>2, <1>3

LEMMA OthersEndNoLine ==
    ASSUME TInv, NEW h \in Hook, HookStep(h) \/ Killed(h),
           ~Open(h), ~WriteRecord(h), ~WriteHead(h), ~WriteTail(h)
    PROVE  /\ content' = content /\ accepted' = accepted /\ UNCHANGED watcher
           /\ path' = path \/ path' = None
BY DEF HookStep, TryLock, GiveUp, LookAtLock, RemoveStaleLock, CheckSize, LookAtPrevious,
   UnlinkPrevious, Rename, Release, Unlock, Killed, files

\* Whose record is in stays past the writing of it.
LEMMA WrittenForGood ==
    ASSUME TInv, [Next]_vars, NEW g \in Hook, pc[g] \in Releasing \cup Ended
    PROVE  pc'[g] \in Releasing \cup Ended
<1>0. pc \in [Hook -> Stands]
  BY DEF TInv, Stands
<1> USE DEF Goto, At, Releasing, Ended
<1>1. ASSUME NEW h \in Hook, HookStep(h) \/ Killed(h) PROVE pc'[g] \in Releasing \cup Ended
  <2>1. CASE h = g
    BY <1>0, <1>1, <2>1 DEF HookStep, TryLock, GiveUp, LookAtLock, RemoveStaleLock, CheckSize,
       LookAtPrevious, UnlinkPrevious, Rename, Open, WriteRecord, WriteHead, WriteTail,
       Release, Unlock, Killed
  <2>2. CASE h # g
    <3>1. pc'[g] = pc[g]
      BY <1>0, <1>1, <2>2 DEF HookStep, TryLock, GiveUp, LookAtLock, RemoveStaleLock, CheckSize,
         LookAtPrevious, UnlinkPrevious, Rename, Open, WriteRecord, WriteHead, WriteTail,
         Release, Unlock, Killed
    <3> QED BY <3>1
  <2> QED BY <2>1, <2>2
<1>2. ASSUME LockAges \/ Poll \/ WatcherRestarts \/ UNCHANGED vars PROVE pc' = pc
  BY <1>2 DEF LockAges, Poll, WatcherRestarts, hooks, vars
<1> QED BY <1>1, <1>2 DEF Next

\* LinesInv but for where the hooks stand.
LinesOf(a, c) ==
    /\ \A m, n \in 1..Len(a) : a[m] = a[n] => m = n
    /\ \A i \in Inode : \A n \in 1..Len(c[i]) : c[i][n].ends => IsIn(a, c[i][n].of)
    /\ \A i \in Inode : \A m, n \in 1..Len(c[i]) :
          m < n /\ c[i][m].ends /\ c[i][n].ends => Before(a, c[i][m].of, c[i][n].of)

LEMMA OldLinesKeep ==
    ASSUME OldLines, LinesOf(accepted, content)
    PROVE  LinesOf(accepted, content')
BY DEF OldLines, LinesOf

LEMMA NewLineKeeps ==
    ASSUME TInv, TInv', NEW h \in Hook, NewLine(h), accepted' = Append(accepted, h),
           LinesOf(accepted, content), ~IsIn(accepted, h)
    PROVE  LinesOf(accepted', content')
<1>t. accepted \in Seq(Hook) /\ \A i \in Inode : Len(content[i]) \in Nat /\ Len(content'[i]) \in Nat
  BY DEF TInv
<1>0. \A m, n \in 1..Len(accepted) : accepted[m] = accepted[n] => m = n
  BY DEF LinesOf
<1>1. /\ \A m, n \in 1..Len(accepted') : accepted'[m] = accepted'[n] => m = n
      /\ \A x : IsIn(accepted', x) <=> IsIn(accepted, x) \/ x = h
      /\ \A x, y : x # h /\ y # h => (Before(accepted', x, y) <=> Before(accepted, x, y))
      /\ \A x : IsIn(accepted, x) => Before(accepted', x, h)
  BY <1>t, <1>0, AcceptedLast
<1>2. ASSUME NEW i \in Inode, NEW n \in 1..Len(content'[i]), content'[i][n].ends
      PROVE  \/ /\ n \in 1..Len(content[i]) /\ content'[i][n] = content[i][n]
                /\ IsIn(accepted, content'[i][n].of) /\ content'[i][n].of # h
             \/ n > Len(content[i]) /\ n = Len(content'[i]) /\ content'[i][n].of = h
  <2>1. n \in 1..Len(content[i]) \/ (n > Len(content[i]) /\ n = Len(content'[i]) /\ content'[i][n].of = h)
    BY <1>2 DEF NewLine
  <2>2. CASE n \in 1..Len(content[i])
    <3>1. content'[i][n] = content[i][n]
      BY <2>2 DEF NewLine
    <3>2. IsIn(accepted, content[i][n].of)
      BY <1>2, <2>2, <3>1 DEF LinesOf
    <3> QED BY <2>2, <3>1, <3>2
  <2> QED BY <2>1, <2>2
<1>3. ASSUME NEW i \in Inode, NEW m \in 1..Len(content'[i]), NEW n \in 1..Len(content'[i]),
             m < n, content'[i][m].ends, content'[i][n].ends
      PROVE  Before(accepted', content'[i][m].of, content'[i][n].of)
  <2>1. /\ m \in 1..Len(content[i]) /\ content'[i][m] = content[i][m]
        /\ IsIn(accepted, content'[i][m].of) /\ content'[i][m].of # h
    BY <1>2, <1>3, <1>t
  <2>2. CASE content'[i][n].of = h
    BY <1>1, <2>1, <2>2
  <2>3. CASE content'[i][n].of # h
    <3>1. n \in 1..Len(content[i]) /\ content'[i][n] = content[i][n]
      BY <1>2, <1>3, <2>3
    <3>2. Before(accepted, content[i][m].of, content[i][n].of)
      BY <1>3, <2>1, <3>1 DEF LinesOf
    <3> QED BY <1>1, <2>1, <2>3, <3>1, <3>2
  <2> QED BY <2>2, <2>3
<1>4. ASSUME NEW i \in Inode, NEW n \in 1..Len(content'[i]), content'[i][n].ends
      PROVE  IsIn(accepted', content'[i][n].of)
  BY <1>1, <1>2, <1>4
<1> QED BY <1>1, <1>3, <1>4 DEF LinesOf

LEMMA LinesAreKept ==
    ASSUME TInv, TInv', LinesInv, [Next]_vars
    PROVE  LinesInv'
<1>0. LinesOf(accepted, content) /\ \A g \in Hook : IsIn(accepted, g) => pc[g] \in Releasing \cup Ended
  BY DEF LinesInv, LinesOf
<1>1. ASSUME LinesOf(accepted', content'),
             \A g \in Hook : IsIn(accepted', g) => pc'[g] \in Releasing \cup Ended
      PROVE  LinesInv'
  BY <1>1 DEF LinesInv, LinesOf
<1>2. ASSUME accepted' = accepted PROVE \A g \in Hook : IsIn(accepted', g) => pc'[g] \in Releasing \cup Ended
  BY <1>0, <1>2, WrittenForGood
<1>3. ASSUME NEW h \in Hook, WriteRecord(h) \/ WriteTail(h) PROVE LinesInv'
  <2>1. NewLine(h) /\ accepted' = Append(accepted, h)
    BY <1>3, WritesEndLines
  <2>2. pc[h] \in {"head", "tail"} /\ pc' = [pc EXCEPT ![h] = "release"]
    BY <1>3 DEF WriteRecord, WriteTail, At, Goto
  <2>3. ~IsIn(accepted, h)
    BY <1>0, <2>2 DEF Releasing, Ended
  <2>4. LinesOf(accepted', content')
    BY <1>0, <2>1, <2>3, NewLineKeeps
  <2>5. pc'[h] = "release"
    BY <2>2 DEF TInv
  <2>6. \A g \in Hook : IsIn(accepted', g) => IsIn(accepted, g) \/ g = h
    <3>1. accepted \in Seq(Hook) /\ \A m, n \in 1..Len(accepted) : accepted[m] = accepted[n] => m = n
      BY <1>0 DEF TInv, LinesOf
    <3> QED BY <2>1, <2>3, <3>1, AcceptedLast
  <2>7. \A g \in Hook : IsIn(accepted', g) => pc'[g] \in Releasing \cup Ended
    BY <1>0, <2>5, <2>6, WrittenForGood DEF Releasing
  <2> QED BY <1>1, <2>4, <2>7
<1>4. ASSUME OldLines, accepted' = accepted PROVE LinesInv'
  BY <1>0, <1>1, <1>2, <1>4, OldLinesKeep
<1>5. ASSUME NEW h \in Hook, WriteHead(h) PROVE LinesInv'
  BY <1>4, <1>5, WritesEndLines
<1>6. ASSUME NEW h \in Hook, Open(h) PROVE LinesInv'
  BY <1>4, <1>6, OpenEndsNoLine
<1>7. content' = content => OldLines
  BY DEF OldLines
<1>8. ASSUME NEW h \in Hook, HookStep(h) \/ Killed(h),
             ~Open(h), ~WriteRecord(h), ~WriteHead(h), ~WriteTail(h)
      PROVE  LinesInv'
  BY <1>4, <1>7, <1>8, OthersEndNoLine
<1>9. ASSUME LockAges \/ Poll \/ WatcherRestarts \/ UNCHANGED vars PROVE LinesInv'
  <2>1. content' = content /\ accepted' = accepted
    BY <1>9 DEF LockAges, Poll, WatcherRestarts, vars, hooks, files
  <2> QED BY <1>4, <1>7, <2>1
<1> QED BY <1>3, <1>5, <1>6, <1>8, <1>9 DEF Next

-----------------------------------------------------------------------------
(***************************************************************************)
(* What the watcher applies.                                               *)
(***************************************************************************)

\* The offset moves on, or the file is new.
Unread(p, s, c, b, a) ==
    p # None => \A j \in 1..Len(b), n \in 1..Len(c[p]) :
                   s < n /\ c[p][n].ends => Before(a, b[j], c[p][n].of)

AppliedOf(b, a) ==
    /\ \A j \in 1..Len(b) : IsIn(a, b[j])
    /\ \A j, k \in 1..Len(b) : j < k => Before(a, b[j], b[k])

LEMMA StartMovesOn ==
    ASSUME TInv, TInv', path \in Inode, path' = path, identity' = identity, pos' = pos,
           Len(content[path]) <= Len(content'[path])
    PROVE  Start(path) <= Start(path)' /\ Start(path) \in Nat /\ Start(path)' \in Nat
BY SpoolAssumption DEF TInv, Start, Size

LEMMA OrderIsKept ==
    ASSUME TInv, TInv', LinesInv, OrderInv, [Next]_vars
    PROVE  OrderInv'
<1>t. /\ \A i \in Inode : Len(content[i]) \in Nat /\ Len(content'[i]) \in Nat
      /\ path \in Inode \cup {None} /\ None \notin Inode
      /\ applied \in Seq(Hook) /\ accepted \in Seq(Hook)
  BY SpoolAssumption DEF TInv
<1>0. AppliedOf(applied, accepted) /\ Unread(path, Start(path), content, applied, accepted)
  BY DEF OrderInv, AppliedOf, Unread
<1>1. ASSUME AppliedOf(applied', accepted'),
             Unread(path', Start(path)', content', applied', accepted')
      PROVE  OrderInv'
  BY <1>1 DEF OrderInv, AppliedOf, Unread
<1>2. ASSUME NEW h \in Hook, WriteRecord(h) \/ WriteTail(h) PROVE OrderInv'
  <2>1. NewLine(h) /\ accepted' = Append(accepted, h)
    BY <1>2, WritesEndLines
  <2>2. path' = path /\ UNCHANGED watcher /\ pc[h] \in {"head", "tail"}
    BY <1>2 DEF WriteRecord, WriteTail, At
  <2>3. ~IsIn(accepted, h)
    BY <2>2 DEF LinesInv, Releasing, Ended
  <2>4. /\ \A x : IsIn(accepted', x) <=> IsIn(accepted, x) \/ x = h
        /\ \A x, y : x # h /\ y # h => (Before(accepted', x, y) <=> Before(accepted, x, y))
        /\ \A x : IsIn(accepted, x) => Before(accepted', x, h)
    <3>1. \A m, n \in 1..Len(accepted) : accepted[m] = accepted[n] => m = n
      BY DEF LinesInv
    <3> QED BY <1>t, <2>1, <2>3, <3>1, AcceptedLast
  <2>5. applied' = applied /\ \A j \in 1..Len(applied) : IsIn(accepted, applied[j]) /\ applied[j] # h
    BY <1>0, <2>2, <2>3 DEF AppliedOf, watcher
  <2>6. AppliedOf(applied', accepted')
    BY <1>0, <2>4, <2>5 DEF AppliedOf
  <2>7. ASSUME path # None, NEW j \in 1..Len(applied), NEW n \in 1..Len(content'[path]),
               Start(path)' < n, content'[path][n].ends
        PROVE  Before(accepted', applied[j], content'[path][n].of)
    <3>1. path \in Inode
      BY <1>t, <2>7
    <3>2. CASE content'[path][n].of = h
      BY <2>4, <2>5, <3>2
    <3>3. CASE content'[path][n].of # h
      <4>1. n \in 1..Len(content[path]) /\ content'[path][n] = content[path][n]
        BY <2>1, <2>7, <3>1, <3>3 DEF NewLine
      <4>2. Start(path) < n
        <5>1. Len(content[path]) <= Len(content'[path])
          BY <2>1, <3>1 DEF NewLine
        <5>2. Start(path) <= Start(path)' /\ Start(path) \in Nat /\ Start(path)' \in Nat
          BY <2>2, <3>1, <5>1, StartMovesOn DEF watcher
        <5>3. n \in Nat
          BY <4>1, <1>t, <3>1
        <5> QED BY <2>7, <5>2, <5>3
      <4>3. Before(accepted, applied[j], content[path][n].of)
        BY <1>0, <2>7, <4>1, <4>2 DEF Unread
      <4> QED BY <2>4, <2>5, <3>3, <4>1, <4>3
    <3> QED BY <3>2, <3>3
  <2>8. Unread(path', Start(path)', content', applied', accepted')
    BY <2>2, <2>5, <2>7 DEF Unread
  <2> QED BY <1>1, <2>6, <2>8
<1>3. ASSUME accepted' = accepted, UNCHANGED watcher, path' = None PROVE OrderInv'
  BY <1>0, <1>1, <1>3 DEF Unread, watcher
<1>4. ASSUME accepted' = accepted, UNCHANGED watcher, path' \in Inode, content'[path'] = <<>>
      PROVE  OrderInv'
  <2>1. Len(content'[path']) = 0
    BY <1>4
  <2>2. Unread(path', Start(path)', content', applied', accepted')
    BY <2>1 DEF Unread
  <2> QED BY <1>0, <1>1, <1>4, <2>2 DEF watcher
<1>5. ASSUME accepted' = accepted, UNCHANGED watcher, path' = path, OldLines,
             \A i \in Inode : Len(content[i]) <= Len(content'[i])
      PROVE  OrderInv'
  <2>1. ASSUME path # None, NEW j \in 1..Len(applied), NEW n \in 1..Len(content'[path]),
               Start(path)' < n, content'[path][n].ends
        PROVE  Before(accepted, applied[j], content'[path][n].of)
    <3>1. path \in Inode
      BY <1>t, <2>1
    <3>2. n \in 1..Len(content[path]) /\ content'[path][n] = content[path][n]
      BY <1>5, <2>1, <3>1 DEF OldLines
    <3>3. Start(path) <= Start(path)' /\ Start(path) \in Nat /\ Start(path)' \in Nat
      BY <1>5, <3>1, StartMovesOn DEF watcher
    <3>4. Start(path) < n
      BY <2>1, <3>2, <3>3, <1>t, <3>1
    <3> QED BY <1>0, <2>1, <3>2, <3>4 DEF Unread
  <2>2. Unread(path', Start(path)', content', applied', accepted')
    BY <1>5, <2>1 DEF Unread, watcher
  <2> QED BY <1>0, <1>1, <1>5, <2>2 DEF watcher
<1>6. content' = content => OldLines /\ \A i \in Inode : Len(content[i]) <= Len(content'[i])
  BY <1>t DEF OldLines
<1>7. ASSUME NEW h \in Hook, WriteHead(h) PROVE OrderInv'
  <2>1. NewLine(h) /\ OldLines /\ accepted' = accepted
    BY <1>7, WritesEndLines
  <2>2. path' = path /\ UNCHANGED watcher
    BY <1>7 DEF WriteHead
  <2> QED BY <1>5, <2>1, <2>2 DEF NewLine
<1>8. ASSUME NEW h \in Hook, Open(h) PROVE OrderInv'
  <2>1. /\ OldLines /\ accepted' = accepted /\ UNCHANGED watcher
        /\ \/ UNCHANGED files
           \/ path' \in Inode /\ content'[path'] = <<>>
    BY <1>8, OpenEndsNoLine
  <2> QED BY <1>4, <1>5, <1>6, <2>1 DEF files
<1>9. ASSUME NEW h \in Hook, HookStep(h) \/ Killed(h),
             ~Open(h), ~WriteRecord(h), ~WriteHead(h), ~WriteTail(h)
      PROVE  OrderInv'
  BY <1>3, <1>5, <1>6, <1>9, OthersEndNoLine
<1>10. ASSUME LockAges \/ UNCHANGED vars PROVE OrderInv'
  <2>1. content' = content /\ accepted' = accepted /\ path' = path /\ UNCHANGED watcher
    BY <1>10 DEF LockAges, vars, hooks, files, watcher
  <2> QED BY <1>5, <1>6, <2>1
<1>11. ASSUME WatcherRestarts PROVE OrderInv'
  <2>1. applied' = <<>> /\ Len(<<>>) = 0
    BY <1>11 DEF WatcherRestarts
  <2>2. AppliedOf(applied', accepted') /\ Unread(path', Start(path)', content', applied', accepted')
    BY <2>1 DEF AppliedOf, Unread
  <2> QED BY <1>1, <2>2
<1>12. ASSUME Poll PROVE OrderInv'
  <2>1. PICK buf \in Seq(Piece) :
           /\ Len(buf) = Len(content[path]) - Start(path)
           /\ \A n \in 1..Len(buf) : buf[n] = content[path][Start(path) + n]
           /\ pos' = Start(path) + Complete(buf)
           /\ applied' = applied \o Consumed(buf)
    BY <1>12, PollReads
  <2>2. path \in Inode /\ Start(path) \in 0..Len(content[path]) /\ Len(content[path]) \in Nat
    BY <1>12, PollReads
  <2>3. path' = path /\ content' = content /\ accepted' = accepted /\ identity' = path
    BY <1>12 DEF Poll, hooks, files
  <2> DEFINE new == Consumed(buf)
             s == Start(path)
             c == content[path]
             L == Len(applied)
             N == Len(new)
  <2>4. new \in Seq(Hook) /\ N \in Nat /\ L \in Nat
    BY <1>t, ConsumedIsOrdered
  <2>5. PICK at \in [1..N -> 1..Len(buf)] :
           /\ \A j, k \in 1..N : j < k => at[j] < at[k]
           /\ \A k \in 1..N : buf[at[k]].ends /\ new[k] = buf[at[k]].of
    BY ConsumedIsOrdered
  <2>6. Complete(buf) \in 0..Len(buf) /\ \A n \in 1..Len(buf) : buf[n].ends => n <= Complete(buf)
    BY CompleteIsLast
  <2>7. /\ applied' \in Seq(Hook) /\ Len(applied') = L + N
        /\ \A j \in 1..L : applied'[j] = applied[j]
        /\ \A j \in 1..(L + N) : j > L => applied'[j] = new[j - L]
    BY <1>t, <2>1, <2>4, ConcatProperties
  <2>8. s \in Nat /\ Len(c) \in Nat /\ Len(buf) = Len(c) - s /\ Len(buf) \in Nat
    BY <2>1, <2>2
  <2> HIDE DEF new, s, c, L, N
  <2>9. \A n \in 1..Len(buf) : s + n \in 1..Len(c) /\ s < s + n /\ buf[n] = c[s + n]
    BY <2>1, <2>8 DEF s, c
  <2>10. \A k \in 1..N : /\ at[k] \in 1..Len(buf) /\ s + at[k] \in 1..Len(c) /\ s < s + at[k]
                         /\ c[s + at[k]].ends /\ new[k] = c[s + at[k]].of
    BY <2>5, <2>9
  <2>11. \A k \in 1..N : IsIn(accepted, new[k])
    BY <2>2, <2>10 DEF LinesInv, c
  <2>12. ASSUME NEW j \in 1..N, NEW k \in 1..N, j < k PROVE Before(accepted, new[j], new[k])
    <3>1. at[j] < at[k] /\ at[j] \in Nat /\ at[k] \in Nat
      BY <2>5, <2>8, <2>10, <2>12
    <3>2. s + at[j] < s + at[k]
      BY <2>8, <3>1
    <3> QED BY <2>2, <2>10, <3>2 DEF LinesInv, c
  <2>13. \A j \in 1..L, k \in 1..N : Before(accepted, applied[j], new[k])
    <3>1. path # None
      BY <1>t, <2>2
    <3> QED BY <1>0, <2>10, <3>1 DEF Unread, s, c, L
  <2>14. \A j \in 1..(L + N) : j \in 1..L \/ (j > L /\ j - L \in 1..N)
    BY <2>4
  <2>15. ASSUME NEW j \in 1..(L + N) PROVE IsIn(accepted, applied'[j])
    <3>1. CASE j \in 1..L
      BY <1>0, <2>7, <3>1 DEF AppliedOf, L
    <3>2. CASE j > L /\ j - L \in 1..N
      BY <2>7, <2>11, <3>2
    <3> QED BY <2>14, <3>1, <3>2
  <2>16. ASSUME NEW j \in 1..(L + N), NEW k \in 1..(L + N), j < k
         PROVE  Before(accepted, applied'[j], applied'[k])
    <3>1. CASE j \in 1..L /\ k \in 1..L
      BY <1>0, <2>7, <2>16, <3>1 DEF AppliedOf, L
    <3>2. CASE j \in 1..L /\ k > L /\ k - L \in 1..N
      BY <2>7, <2>13, <3>2
    <3>3. CASE j > L /\ j - L \in 1..N /\ k > L /\ k - L \in 1..N
      <4>1. j - L < k - L
        BY <2>4, <2>16
      <4> QED BY <2>7, <2>12, <3>3, <4>1
    <3>4. CASE j > L /\ k \in 1..L
      BY <2>4, <2>16, <3>4
    <3> QED BY <2>14, <3>1, <3>2, <3>3, <3>4
  <2>17. AppliedOf(applied', accepted')
    BY <2>3, <2>7, <2>15, <2>16 DEF AppliedOf
  <2>18. Start(path)' = s + Complete(buf)
    <3>1. pos' = s + Complete(buf) /\ s + Complete(buf) \in Nat /\ s + Complete(buf) <= Len(c)
      BY <2>1, <2>6, <2>8 DEF s
    <3>2. Start(path)' = IF (path # None /\ path # path) \/ Len(c) < pos' THEN 0 ELSE pos'
      BY <1>t, <2>2, <2>3 DEF Start, Size, c
    <3> QED BY <2>8, <3>1, <3>2
  <2>19. ASSUME NEW n \in 1..Len(c), s + Complete(buf) < n PROVE ~c[n].ends
    <3>1. n - s \in 1..Len(buf) /\ ~(n - s <= Complete(buf)) /\ s + (n - s) = n
      BY <2>6, <2>8, <2>19
    <3>2. buf[n - s] = c[n]
      BY <2>9, <3>1
    <3> QED BY <2>6, <3>1, <3>2
  <2>20. Unread(path', Start(path)', content', applied', accepted')
    BY <2>3, <2>18, <2>19 DEF Unread, c
  <2> QED BY <1>1, <2>17, <2>20
<1> QED BY <1>2, <1>7, <1>8, <1>9, <1>10, <1>11, <1>12 DEF Next

-----------------------------------------------------------------------------

LEMMA SpoolStarts ==
    ASSUME Init
    PROVE  SInv
<1> USE DEF Init
<1>1. <<>> \in Seq(Hook) /\ <<>> \in Seq(Piece) /\ Len(<<>>) = 0
  BY EmptySeq
<1>2. TInv
  BY <1>1 DEF TInv, Waiting, NoLock
<1>3. LockInv
  BY DEF LockInv, At, NoLock, Holding, Releasing
<1>4. RoomInv
  BY DEF RoomInv, At
<1>5. LinesInv
  <2>1. \A x : ~IsIn(accepted, x)
    BY <1>1 DEF IsIn
  <2>2. \A i \in Inode : Len(content[i]) = 0
    BY <1>1
  <2> QED BY <1>1, <2>1, <2>2 DEF LinesInv
<1>6. OrderInv
  BY <1>1 DEF OrderInv
<1> QED BY <1>2, <1>3, <1>4, <1>5, <1>6 DEF SInv

THEOREM SpoolAgrees == SpoolSpec => []SInv
<1>1. ASSUME SInv, [Next]_vars PROVE SInv'
  <2>1. TInv'
    BY <1>1, TypesHold DEF SInv
  <2> QED BY <1>1, <2>1, LockIsKept, RoomIsKept, LinesAreKept, OrderIsKept DEF SInv
<1> QED BY <1>1, SpoolStarts, PTL DEF SpoolSpec

\* In a sequence with an order no element stands twice.
LEMMA OrderedIsInjective ==
    ASSUME TInv, LinesInv, OrderInv
    PROVE  IsInjective(accepted) /\ IsInjective(applied)
<1>1. DOMAIN accepted = 1..Len(accepted) /\ DOMAIN applied = 1..Len(applied) /\ Len(applied) \in Nat
  BY DEF TInv
<1>2. IsInjective(accepted)
  BY <1>1 DEF LinesInv, IsInjective
<1>3. ASSUME NEW j \in 1..Len(applied), NEW k \in 1..Len(applied), applied[j] = applied[k], j < k
      PROVE  FALSE
  <2>1. Before(accepted, applied[j], applied[j])
    BY <1>3 DEF OrderInv
  <2>2. PICK m \in 1..Len(accepted) : accepted[m] = applied[j]
    BY DEF OrderInv, IsIn
  <2>3. m < m
    BY <2>1, <2>2 DEF Before
  <2>4. m \in Nat
    BY DEF TInv
  <2> QED BY <2>3, <2>4
<1>4. IsInjective(applied)
  <2>1. \A j, k \in 1..Len(applied) : j < k \/ k < j \/ j = k
    BY <1>1
  <2> QED BY <1>1, <1>3, <2>1 DEF IsInjective
<1> QED BY <1>2, <1>4

\* The lock: between taking it and releasing it there is one hook, as long as none has
\* been killed, and the size it has found does not change under it (status-runtime.mjs,
\* appendProjectedEvent); and nothing is accepted or applied twice.
THEOREM LockDoesItsWork == SpoolSpec => []SpoolInv
<1>1. SInv => SpoolInv
  <2> SUFFICES ASSUME SInv PROVE SpoolInv
    OBVIOUS
  <2>1. IsInjective(accepted) /\ IsInjective(applied)
    BY OrderedIsInjective DEF SInv
  <2>2. SpoolTypeOK
    BY <2>1 DEF SInv, TInv, SpoolTypeOK, Records, Piece
  <2>3. LockIsExclusive
    BY OneHolder DEF SInv
  <2>4. GrowthIsBounded
    BY DEF SInv, RoomInv, GrowthIsBounded
  <2> QED BY <2>2, <2>3, <2>4 DEF SpoolInv
<1> QED BY <1>1, SpoolAgrees, PTL

\* The watcher's machine hears records in the order of their acceptance, whoever is
\* killed, whatever is torn, rotated away or given the number of a file that is gone,
\* and however often the watcher starts again (crates/watch, read_available).
THEOREM AppliedAsAccepted == SpoolSpec => []AppliedInOrder
<1>1. SInv => AppliedInOrder
  BY DEF SInv, OrderInv, AppliedInOrder, Before
<1> QED BY <1>1, SpoolAgrees, PTL
=============================================================================
