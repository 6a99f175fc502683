---------------------------- MODULE RWLockProofs ----------------------------
(***************************************************************************)
(* Proofs about RWLock, for any threads and any value of UINT_MAX.  The    *)
(* invariant ties the counters to what the threads are doing: readers to   *)
(* the read locks of the entries, writers to the thread that writes,       *)
(* writers_waiting to the threads inside wrlock, wlk and its depth to the  *)
(* places from which it is left.  None of these alone is inductive: that a *)
(* reader is not admitted beside a writer needs the counters to be exact,  *)
(* and that wlk is left as often as entered needs to know where threads    *)
(* are.                                                                    *)
(***************************************************************************)
EXTENDS RWLock, FiniteSetTheorems, TLAPS

ReadLocks == {x \in Threads \X (1..MaxCount) : x[2] <= rc[x[1]]}

\* Inside rwlock_rdlock, having to wait.
RdPlaces == {"rdwait", "rdenter", "rdtest", "rdleave", "rdloop"}

\* Inside rwlock_wrlock and counted in writers_waiting.
WrPlaces == {"wrenter", "wrtest", "wrleave", "wrwait"}
Waiters == {t \in Threads : pc[t] \in WrPlaces}

\* From here a thread leaves wlk, or keeps it by becoming the writer.
Inside == {"rdtest", "rdleave", "wrtest", "wrleave", "trytest", "leave"}

ReadInv == readers = Cardinality(ReadLocks)

WriterInv ==
  /\ writers = 0 => writing = {}
  /\ writers = 1 => writing = {writer} /\ readers = 0

WaitInv == waiting = Cardinality(Waiters)

WlkInv ==
  /\ \A t \in Threads : t \in writing \/ pc[t] \in Inside => wlk = t
  /\ wlk = NoThread => depth = 0
  /\ wlk \in Threads =>
       depth = (IF wlk \in writing THEN 1 ELSE 0) + (IF pc[wlk] \in Inside THEN 1 ELSE 0)
  /\ wlk \in Threads => depth > 0

EntryInv == \A t \in Threads : pc[t] \in RdPlaces => rc[t] = 0

IInv ==
  /\ TypeOK
  /\ ReadInv
  /\ WriterInv
  /\ WaitInv
  /\ WlkInv
  /\ EntryInv
  /\ EventsTellCounters
  /\ DestroyedUnused
-----------------------------------------------------------------------------
\* The places of the program are what the names say, and the sets are finite.
LEMMA FiniteWaiters ==
  ASSUME TypeOK
  PROVE  IsFiniteSet(Waiters) /\ Cardinality(Waiters) \in Nat
<1>1. Waiters \subseteq Threads
  BY DEF Waiters
<1>2. QED
  BY <1>1, RWConstants, FS_Subset, FS_CardinalityType

LEMMA FiniteReadLocks ==
  ASSUME TypeOK
  PROVE  IsFiniteSet(ReadLocks) /\ Cardinality(ReadLocks) \in Nat
<1>1. IsFiniteSet(1..MaxCount)
  BY FS_Interval, RWConstants
<1>2. IsFiniteSet(Threads \X (1..MaxCount))
  BY <1>1, RWConstants, FS_Product
<1>3. ReadLocks \subseteq Threads \X (1..MaxCount)
  BY DEF ReadLocks
<1>4. QED
  BY <1>2, <1>3, FS_Subset, FS_CardinalityType

\* A thread that moves about inside wrlock, or outside it, changes no waiter.
LEMMA WaitStays ==
  ASSUME TypeOK, WaitInv, NEW t \in Threads, NEW from, NEW to, Go(t, from, to),
         from \in WrPlaces <=> to \in WrPlaces, waiting' = waiting
  PROVE  WaitInv'
<1>1. Waiters' = Waiters
  BY DEF TypeOK, Waiters, Go
<1>2. QED
  BY <1>1 DEF WaitInv

LEMMA WaitBegins ==
  ASSUME TypeOK, WaitInv, NEW t \in Threads, NEW from, NEW to, Go(t, from, to),
         from \notin WrPlaces, to \in WrPlaces, waiting' = waiting + 1
  PROVE  WaitInv'
<1>1. Waiters' = Waiters \cup {t} /\ t \notin Waiters
  BY DEF TypeOK, Waiters, Go
<1>2. Cardinality(Waiters \cup {t}) = Cardinality(Waiters) + 1
  BY <1>1, FiniteWaiters, FS_AddElement
<1>3. QED
  BY <1>1, <1>2 DEF WaitInv

LEMMA WaitEnds ==
  ASSUME TypeOK, WaitInv, NEW t \in Threads, NEW from, NEW to, Go(t, from, to),
         from \in WrPlaces, to \notin WrPlaces, waiting' = waiting - 1
  PROVE  WaitInv' /\ waiting > 0
<1>1. Waiters' = Waiters \ {t} /\ t \in Waiters
  BY DEF TypeOK, Waiters, Go
<1>2. Cardinality(Waiters \ {t}) = Cardinality(Waiters) - 1
  BY <1>1, FiniteWaiters, FS_RemoveElement
<1>3. Cardinality(Waiters \ {t}) \in Nat
  BY <1>1, FiniteWaiters, FS_RemoveElement, FS_CardinalityType
<1>4. QED
  BY <1>1, <1>2, <1>3, FiniteWaiters DEF WaitInv

\* A reader that is let in adds one lock, and one that leaves takes one away.
LEMMA ReadMore ==
  ASSUME TypeOK, ReadInv, NEW t \in Threads, Admit(t), ~Full(t)
  PROVE  ReadInv'
<1> DEFINE n == Count(t) + 1
<1>1. n \in 1..MaxCount /\ rc' = [rc EXCEPT ![t] = n]
  BY RWConstants DEF Admit, Full, Count, TypeOK
<1>2. ReadLocks' = ReadLocks \cup {<<t, n>>}
  BY <1>1, RWConstants DEF ReadLocks, TypeOK, Count
<1>3. <<t, n>> \notin ReadLocks
  BY <1>1, RWConstants DEF ReadLocks, TypeOK, Count
<1>4. Cardinality(ReadLocks \cup {<<t, n>>}) = Cardinality(ReadLocks) + 1
  BY <1>3, FiniteReadLocks, FS_AddElement
<1>5. QED
  BY <1>2, <1>4 DEF ReadInv, Admit

LEMMA ReadSame ==
  ASSUME TypeOK, ReadInv, NEW t \in Threads, NEW n \in {-1, 0}, rc[t] \in {-1, 0},
         rc' = [rc EXCEPT ![t] = n], readers' = readers
  PROVE  ReadInv'
<1>1. ReadLocks' = ReadLocks
  BY RWConstants DEF ReadLocks, TypeOK
<1>2. QED
  BY <1>1 DEF ReadInv

LEMMA ReadLess ==
  ASSUME TypeOK, ReadInv, NEW t \in Threads, rc[t] > 0,
         rc' = [rc EXCEPT ![t] = IF @ = 1 THEN -1 ELSE @ - 1], readers' = readers - 1
  PROVE  ReadInv' /\ readers > 0
<1> DEFINE n == rc[t]
<1>1. n \in 1..MaxCount
  BY RWConstants DEF TypeOK
<1>2. ReadLocks' = ReadLocks \ {<<t, n>>}
  BY <1>1, RWConstants DEF ReadLocks, TypeOK
<1>3. <<t, n>> \in ReadLocks
  BY <1>1 DEF ReadLocks
<1>4. Cardinality(ReadLocks \ {<<t, n>>}) = Cardinality(ReadLocks) - 1
  BY <1>3, FiniteReadLocks, FS_RemoveElement
<1>5. Cardinality(ReadLocks \ {<<t, n>>}) \in Nat
  BY <1>3, FiniteReadLocks, FS_RemoveElement, FS_CardinalityType
<1>6. QED
  BY <1>2, <1>4, <1>5, FiniteReadLocks DEF ReadInv

\* Who has a lock for reading is counted.
LEMMA ReaderCounted ==
  ASSUME TypeOK, ReadInv, NEW t \in Threads, rc[t] > 0
  PROVE  readers > 0
<1>1. <<t, rc[t]>> \in ReadLocks
  BY RWConstants DEF ReadLocks, TypeOK
<1>2. Cardinality(ReadLocks) # 0
  BY <1>1, FiniteReadLocks, FS_EmptySet
<1>3. QED
  BY <1>2, FiniteReadLocks DEF ReadInv
-----------------------------------------------------------------------------
\* The part of the type that lies in the members.
MembersType ==
  /\ zeror \in BOOLEAN /\ zerow \in BOOLEAN
  /\ readers \in 0..MaxCount /\ writers \in 0..1 /\ waiting \in 0..MaxCount
  /\ writer \in Threads \cup {NoThread}
  /\ rc \in [Threads -> -1..MaxCount]

MembersInv == MembersType /\ ReadInv /\ WriterInv /\ EventsTellCounters

\* A thread that has no lock yet is admitted when nobody writes, and one that
\* has a lock is counted among the readers, beside whom nobody writes.
LEMMA AdmitKeeps ==
  ASSUME TypeOK, MembersInv, NEW t \in Threads, Admit(t), ~Full(t), Count(t) = 0 => ~Busy,
         writing' = writing
  PROVE  MembersInv'
<1>1. ReadInv'
  BY ReadMore DEF MembersInv
<1>2. writers = 0
  <2>1. CASE Count(t) = 0
    BY <2>1 DEF Busy, TypeOK
  <2>2. CASE Count(t) # 0
    <3>1. rc[t] > 0
      BY <2>2, RWConstants DEF Count, TypeOK
    <3>2. readers > 0
      BY <3>1, ReaderCounted DEF MembersInv
    <3>3. QED
      BY <3>2 DEF MembersInv, WriterInv, TypeOK
  <2>3. QED
    BY <2>1, <2>2
<1>3. MembersType'
  <2>1. zeror' \in BOOLEAN /\ zerow' \in BOOLEAN
    BY Zenon DEF Admit, TypeOK
  <2>2. QED
    BY <2>1, RWConstants DEF Admit, Full, Count, TypeOK, MembersType
<1>4. WriterInv'
  BY <1>2 DEF Admit, MembersInv, WriterInv
<1>5. EventsTellCounters'
  BY RWConstants DEF Admit, MembersInv, EventsTellCounters, TypeOK
<1>6. QED
  BY <1>1, <1>3, <1>4, <1>5 DEF MembersInv

LEMMA RefuseKeeps ==
  ASSUME TypeOK, MembersInv, NEW t \in Threads, Refuse(t), writing' = writing
  PROVE  MembersInv'
<1>1. ReadInv'
  <2>1. CASE Count(t) = 0
    <3>1. rc[t] \in {-1, 0} /\ rc' = [rc EXCEPT ![t] = -1] /\ readers' = readers
      BY <2>1, RWConstants DEF Refuse, Count, TypeOK
    <3>2. QED
      BY <3>1, ReadSame DEF MembersInv
  <2>2. CASE Count(t) # 0
    BY <2>2 DEF Refuse, TypeOK, MembersInv, ReadInv, ReadLocks
  <2>3. QED
    BY <2>1, <2>2
<1>2. MembersType'
  <2>1. zeror' \in BOOLEAN /\ zerow' \in BOOLEAN
    BY Zenon DEF Refuse, TypeOK
  <2>2. QED
    BY <2>1, RWConstants DEF Refuse, Count, TypeOK, MembersType
<1>3. WriterInv' /\ EventsTellCounters'
  BY DEF Refuse, MembersInv, WriterInv, EventsTellCounters
<1>4. QED
  BY <1>1, <1>2, <1>3 DEF MembersInv

LEMMA AdmissionKeeps ==
  ASSUME TypeOK, MembersInv, NEW t \in Threads, Admission(t), Count(t) = 0 => ~Busy,
         writing' = writing
  PROVE  MembersInv'
BY AdmitKeeps, RefuseKeeps DEF Admission

\* What an admission leaves alone.
LEMMA AdmissionLeaves ==
  ASSUME TypeOK, NEW t \in Threads, Admit(t) \/ Refuse(t)
  PROVE  /\ waiting' = waiting
         /\ \A u \in Threads \ {t} : rc'[u] = rc[u]
BY DEF Admit, Refuse, TypeOK
-----------------------------------------------------------------------------
\* Entering and leaving wlk.
LEMMA EnterKeeps ==
  ASSUME TypeOK, WlkInv, NEW t \in Threads, NEW from \in Places \ Inside, NEW to \in Inside,
         Go(t, from, to), EnterW(t), writing' = writing
  PROVE  WlkInv' /\ wlk' \in Threads /\ depth' \in Nat
<1>1. wlk' = t /\ depth' = depth + 1 /\ wlk \in {NoThread, t} /\ depth \in Nat
  BY DEF EnterW, TypeOK
<1>2. pc[t] \notin Inside /\ pc'[t] \in Inside /\ \A u \in Threads \ {t} : pc'[u] = pc[u]
  BY DEF Go, TypeOK
<1>3. \A u \in Threads \ {t} : u \notin writing /\ pc[u] \notin Inside
  BY <1>1, RWConstants DEF WlkInv
<1>4. depth = IF t \in writing THEN 1 ELSE 0
  <2>1. CASE wlk = t
    BY <2>1, <1>2 DEF WlkInv
  <2>2. CASE wlk = NoThread
    BY <2>2, RWConstants DEF WlkInv
  <2>3. QED
    BY <1>1, <2>1, <2>2
<1>5. \A u \in Threads : u \in writing' \/ pc'[u] \in Inside => wlk' = u
  BY <1>1, <1>2, <1>3
<1>6. depth' = (IF t \in writing' THEN 1 ELSE 0) + 1
  BY <1>1, <1>4
<1>7. QED
  BY <1>1, <1>2, <1>5, <1>6, RWConstants DEF WlkInv

LEMMA LeaveKeeps ==
  ASSUME TypeOK, WlkInv, NEW t \in Threads, NEW from \in Inside, NEW to \in Places \ Inside,
         Go(t, from, to), LeaveW(t), writing' = writing
  PROVE  WlkInv' /\ wlk' \in Threads \cup {NoThread} /\ depth' \in Nat
<1>1. pc[t] \in Inside /\ pc'[t] \notin Inside /\ \A u \in Threads \ {t} : pc'[u] = pc[u]
  BY DEF Go, TypeOK
<1>2. wlk = t /\ depth = (IF t \in writing THEN 1 ELSE 0) + 1 /\ t # NoThread
  BY <1>1, RWConstants DEF WlkInv
<1>3. \A u \in Threads \ {t} : u \notin writing /\ pc[u] \notin Inside
  BY <1>2 DEF WlkInv
<1>4. depth' = IF t \in writing' THEN 1 ELSE 0
  BY <1>2 DEF LeaveW
<1>5. wlk' = IF t \in writing' THEN t ELSE NoThread
  BY <1>2 DEF LeaveW
<1>6. QED
  BY <1>1, <1>2, <1>3, <1>4, <1>5, RWConstants DEF WlkInv

LEMMA WlkKept ==
  ASSUME TypeOK, WlkInv, NEW t \in Threads, NEW from, NEW to, Go(t, from, to),
         from \in Inside <=> to \in Inside, UnchangedW, writing' = writing
  PROVE  WlkInv'
<1>1. \A u \in Threads : pc'[u] \in Inside <=> pc[u] \in Inside
  BY DEF Go, TypeOK
<1>2. wlk' = wlk /\ depth' = depth /\ writing' = writing
  BY DEF UnchangedW
<1>3. QED
  BY <1>1, <1>2 DEF WlkInv

\* A writer keeps wlk, which it has entered, until its unlock leaves it.
LEMMA WriterTakesWlk ==
  ASSUME TypeOK, WlkInv, NEW t \in Threads, NEW from \in Inside, NEW to \in Places \ Inside,
         Go(t, from, to), UnchangedW, t \notin writing, writing' = writing \cup {t}
  PROVE  WlkInv'
<1>1. pc[t] \in Inside /\ pc'[t] \notin Inside /\ \A u \in Threads \ {t} : pc'[u] = pc[u]
  BY DEF Go, TypeOK
<1>2. wlk' = t /\ depth' = 1 /\ wlk = t /\ depth = 1
  BY <1>1 DEF WlkInv, UnchangedW
<1>3. QED
  BY <1>1, <1>2, RWConstants DEF WlkInv

LEMMA WriterGivesWlk ==
  ASSUME TypeOK, WlkInv, NEW t \in Threads, NEW from \in Places \ Inside, NEW to \in Inside,
         Go(t, from, to), UnchangedW, t \in writing, writing' = writing \ {t}
  PROVE  WlkInv'
<1>1. pc[t] \notin Inside /\ pc'[t] \in Inside /\ \A u \in Threads \ {t} : pc'[u] = pc[u]
  BY DEF Go, TypeOK
<1>2. wlk' = t /\ depth' = 1 /\ wlk = t /\ depth = 1
  BY <1>1 DEF WlkInv, UnchangedW
<1>3. QED
  BY <1>1, <1>2, RWConstants DEF WlkInv
-----------------------------------------------------------------------------
\* What there is to show of an action of a thread, other than destroy.
LEMMA Assembled ==
  ASSUME IInv, NEW t \in Threads, NEW from, NEW to \in Places, Go(t, from, to),
         ~freed, freed' = freed,
         calls' \in [Threads -> 0..MaxCalls], writing' \subseteq Threads,
         MembersInv', WaitInv', WlkInv', wlk' \in Threads \cup {NoThread}, depth' \in Nat,
         \A u \in Threads \ {t} : rc'[u] = rc[u],
         to \in RdPlaces => rc'[t] = 0
  PROVE  IInv'
<1>1. pc' \in [Threads -> Places] /\ pc'[t] = to /\ \A u \in Threads \ {t} : pc'[u] = pc[u]
  BY DEF Go, IInv, TypeOK
<1>2. TypeOK'
  <2>1. freed' \in BOOLEAN /\ zeror' \in BOOLEAN /\ zerow' \in BOOLEAN
    BY Zenon DEF MembersInv, MembersType, IInv, TypeOK
  <2>2. QED
    BY <1>1, <2>1 DEF TypeOK, MembersInv, MembersType
<1>3. EntryInv'
  BY <1>1 DEF EntryInv, IInv
<1>4. DestroyedUnused'
  BY DEF DestroyedUnused
<1>5. QED
  BY <1>2, <1>3, <1>4 DEF IInv, MembersInv

LEMMA Parts ==
  ASSUME IInv
  PROVE  TypeOK /\ MembersInv /\ WaitInv /\ WlkInv /\ EntryInv /\ MembersType
<1>1. zeror \in BOOLEAN /\ zerow \in BOOLEAN
  BY Zenon DEF IInv, TypeOK
<1>2. QED
  BY <1>1 DEF IInv, TypeOK, MembersInv, MembersType

LEMMA MembersKept ==
  ASSUME MembersInv, UNCHANGED members, writing' = writing
  PROVE  MembersInv'
BY DEF MembersInv, MembersType, ReadInv, ReadLocks, WriterInv, EventsTellCounters, members

LEMMA CallCounts ==
  ASSUME TypeOK, NEW t \in Threads, Call(t)
  PROVE  ~freed /\ calls' \in [Threads -> 0..MaxCalls]
BY RWConstants DEF Call, TypeOK

\* A thread that is inside a call uses a lock that has not been freed.
LEMMA InUse ==
  ASSUME IInv, NEW t \in Threads, NEW from, NEW to, Go(t, from, to), from # "idle"
  PROVE  ~freed
BY DEF IInv, DestroyedUnused, Go
-----------------------------------------------------------------------------
LEMMA RdLockStep ==
  ASSUME IInv, NEW t \in Threads, RdLock(t)
  PROVE  IInv'
<1> USE Parts DEF RdPlaces, WrPlaces, Inside, Places, UnchangedW
<1>1. ~freed /\ calls' \in [Threads -> 0..MaxCalls] /\ freed' = freed /\ writing' = writing
  BY CallCounts DEF RdLock
<1>2. wlk' \in Threads \cup {NoThread} /\ depth' \in Nat /\ writing' \subseteq Threads
  BY <1>1 DEF RdLock, TypeOK
<1>3. CASE MustWait(t)
  <2>1. /\ Go(t, "idle", "rdwait")
        /\ rc' = [rc EXCEPT ![t] = Count(t)]
        /\ UNCHANGED <<zeror, zerow, readers, writers, waiting, writer>>
    BY <1>3 DEF RdLock
  <2>2. rc[t] \in {-1, 0} /\ rc' = [rc EXCEPT ![t] = 0]
    BY <1>3, <2>1, RWConstants DEF MustWait, Count, TypeOK
  <2>3. ReadInv'
    BY <2>1, <2>2, ReadSame DEF MembersInv
  <2>4. MembersType'
    BY <2>1, <2>2, RWConstants DEF MembersType
  <2>5. MembersInv'
    BY <1>1, <2>1, <2>3, <2>4 DEF MembersInv, WriterInv, EventsTellCounters
  <2>6. WaitInv'
    BY <2>1, WaitStays
  <2>7. WlkInv'
    BY <1>1, <2>1, WlkKept DEF RdLock
  <2>8. rc'[t] = 0 /\ \A u \in Threads \ {t} : rc'[u] = rc[u]
    BY <2>2 DEF TypeOK
  <2>9. QED
    BY <1>1, <1>2, <2>1, <2>5, <2>6, <2>7, <2>8, Assembled
<1>4. CASE ~MustWait(t)
  <2>1. Go(t, "idle", "idle") /\ Admission(t)
    BY <1>4 DEF RdLock
  <2>2. Count(t) = 0 => ~Busy
    BY <1>4 DEF MustWait
  <2>3. MembersInv'
    BY <1>1, <2>1, <2>2, AdmissionKeeps
  <2>4. waiting' = waiting /\ \A u \in Threads \ {t} : rc'[u] = rc[u]
    BY <2>1, AdmissionLeaves DEF Admission
  <2>5. WaitInv'
    BY <2>1, <2>4, WaitStays
  <2>6. WlkInv'
    BY <1>1, <2>1, WlkKept DEF RdLock
  <2>7. QED
    BY <1>1, <1>2, <2>1, <2>3, <2>4, <2>5, <2>6, Assembled
<1>5. QED
  BY <1>3, <1>4

LEMMA TryRdLockStep ==
  ASSUME IInv, NEW t \in Threads, TryRdLock(t)
  PROVE  IInv'
<1> USE Parts DEF RdPlaces, WrPlaces, Inside, Places, UnchangedW
<1>1. ~freed /\ calls' \in [Threads -> 0..MaxCalls] /\ freed' = freed /\ writing' = writing
  BY CallCounts DEF TryRdLock
<1>2. wlk' \in Threads \cup {NoThread} /\ depth' \in Nat /\ writing' \subseteq Threads
  BY <1>1 DEF TryRdLock, TypeOK
<1>3. /\ Go(t, "idle", "idle")
      /\ \/ Refuse(t)
         \/ Admit(t) /\ ~Full(t) /\ (Count(t) = 0 => ~Busy)
  BY DEF TryRdLock, MustWait
<1>4. MembersInv'
  BY <1>1, <1>3, AdmitKeeps, RefuseKeeps
<1>5. waiting' = waiting /\ \A u \in Threads \ {t} : rc'[u] = rc[u]
  BY <1>3, AdmissionLeaves
<1>6. WaitInv'
  BY <1>3, <1>5, WaitStays
<1>7. WlkInv'
  BY <1>1, <1>3, WlkKept DEF TryRdLock
<1>8. QED
  BY <1>1, <1>2, <1>3, <1>4, <1>5, <1>6, <1>7, Assembled

\* The waits, and the ways into wlk and out of it, change no member.
LEMMA MoveStep ==
  ASSUME IInv, NEW t \in Threads, NEW from \in Places, NEW to \in Places, Go(t, from, to),
         from # "idle", from \in WrPlaces <=> to \in WrPlaces,
         to \in RdPlaces => from \in RdPlaces,
         UNCHANGED <<members, freed, writing, calls>>,
         \/ UnchangedW /\ (from \in Inside <=> to \in Inside)
         \/ EnterW(t) /\ from \notin Inside /\ to \in Inside
         \/ LeaveW(t) /\ from \in Inside /\ to \notin Inside
  PROVE  IInv'
<1> USE Parts
<1>1. ~freed /\ freed' = freed /\ writing' = writing /\ rc' = rc
  BY InUse DEF members
<1>2. calls' \in [Threads -> 0..MaxCalls] /\ writing' \subseteq Threads
  BY DEF TypeOK
<1>3. MembersInv'
  BY MembersKept
<1>4. WaitInv'
  BY WaitStays DEF members
<1>5. WlkInv' /\ wlk' \in Threads \cup {NoThread} /\ depth' \in Nat
  <2>1. CASE UnchangedW /\ (from \in Inside <=> to \in Inside)
    BY <1>1, <2>1, WlkKept DEF UnchangedW, TypeOK
  <2>2. CASE EnterW(t) /\ from \notin Inside /\ to \in Inside
    BY <1>1, <2>2, EnterKeeps
  <2>3. CASE LeaveW(t) /\ from \in Inside /\ to \notin Inside
    BY <1>1, <2>3, LeaveKeeps
  <2>4. QED
    BY <2>1, <2>2, <2>3
<1>6. to \in RdPlaces => rc'[t] = 0
  BY <1>1 DEF EntryInv, Go
<1>7. QED
  BY <1>1, <1>2, <1>3, <1>4, <1>5, <1>6, Assembled

LEMMA MovesKeep ==
  ASSUME IInv, NEW t \in Threads,
         \/ RdWait(t) \/ RdEnter(t) \/ RdLeave(t)
         \/ WrEnter(t) \/ WrLeave(t) \/ WrWait(t) \/ Leave(t)
  PROVE  IInv'
<1> USE DEF Places, RdPlaces, WrPlaces, Inside
<1>1. CASE RdWait(t)
  BY <1>1, MoveStep DEF RdWait
<1>2. CASE RdEnter(t)
  BY <1>2, MoveStep DEF RdEnter
<1>3. CASE RdLeave(t)
  BY <1>3, MoveStep DEF RdLeave
<1>4. CASE WrEnter(t)
  BY <1>4, MoveStep DEF WrEnter
<1>5. CASE WrLeave(t)
  BY <1>5, MoveStep DEF WrLeave
<1>6. CASE WrWait(t)
  BY <1>6, MoveStep DEF WrWait
<1>7. CASE Leave(t)
  BY <1>7, MoveStep DEF Leave
<1>8. QED
  BY <1>1, <1>2, <1>3, <1>4, <1>5, <1>6, <1>7
-----------------------------------------------------------------------------
LEMMA RdTestStep ==
  ASSUME IInv, NEW t \in Threads, RdTest(t)
  PROVE  IInv'
<1> USE Parts DEF RdPlaces, WrPlaces, Inside, Places, UnchangedW
<1>1. ~freed /\ freed' = freed /\ writing' = writing /\ calls' \in [Threads -> 0..MaxCalls]
  BY InUse DEF RdTest, RdTestBusy, TypeOK
<1>2. wlk' \in Threads \cup {NoThread} /\ depth' \in Nat /\ writing' \subseteq Threads
  BY <1>1 DEF RdTest, TypeOK
<1>3. rc[t] = 0
  BY DEF RdTest, RdTestBusy, Go, EntryInv
<1>4. CASE RdTestBusy(t)
  <2>1. Go(t, "rdtest", "rdleave") /\ UNCHANGED members
    BY <1>4 DEF RdTestBusy
  <2>2. MembersInv'
    BY <1>1, <2>1, MembersKept
  <2>3. WaitInv'
    BY <2>1, WaitStays DEF members
  <2>4. WlkInv'
    BY <1>1, <2>1, WlkKept DEF RdTest
  <2>5. rc'[t] = 0 /\ \A u \in Threads \ {t} : rc'[u] = rc[u]
    BY <1>3, <2>1 DEF members
  <2>6. QED
    BY <1>1, <1>2, <2>1, <2>2, <2>3, <2>4, <2>5, Assembled
<1>5. CASE ~Busy /\ Go(t, "rdtest", "leave") /\ Admission(t)
  <2>1. MembersInv'
    BY <1>1, <1>5, AdmissionKeeps
  <2>2. waiting' = waiting /\ \A u \in Threads \ {t} : rc'[u] = rc[u]
    BY <1>5, AdmissionLeaves DEF Admission
  <2>3. WaitInv'
    BY <1>5, <2>2, WaitStays
  <2>4. WlkInv'
    BY <1>1, <1>5, WlkKept DEF RdTest
  <2>5. QED
    BY <1>1, <1>2, <1>5, <2>1, <2>2, <2>3, <2>4, Assembled
<1>6. QED
  BY <1>4, <1>5 DEF RdTest

LEMMA RdLoopStep ==
  ASSUME IInv, NEW t \in Threads, RdLoop(t)
  PROVE  IInv'
<1> USE Parts DEF RdPlaces, WrPlaces, Inside, Places, UnchangedW
<1>1. ~freed /\ freed' = freed /\ writing' = writing /\ calls' \in [Threads -> 0..MaxCalls]
  BY InUse DEF RdLoop, TypeOK
<1>2. wlk' \in Threads \cup {NoThread} /\ depth' \in Nat /\ writing' \subseteq Threads
  BY <1>1 DEF RdLoop, TypeOK
<1>3. rc[t] = 0
  BY DEF RdLoop, Go, EntryInv
<1>4. CASE MustWait(t)
  <2>1. Go(t, "rdloop", "rdwait") /\ UNCHANGED members
    BY <1>4 DEF RdLoop
  <2>2. MembersInv'
    BY <1>1, <2>1, MembersKept
  <2>3. WaitInv'
    BY <2>1, WaitStays DEF members
  <2>4. WlkInv'
    BY <1>1, <2>1, WlkKept DEF RdLoop
  <2>5. rc'[t] = 0 /\ \A u \in Threads \ {t} : rc'[u] = rc[u]
    BY <1>3, <2>1 DEF members
  <2>6. QED
    BY <1>1, <1>2, <2>1, <2>2, <2>3, <2>4, <2>5, Assembled
<1>5. CASE ~MustWait(t)
  <2>1. Go(t, "rdloop", "idle") /\ Admission(t) /\ (Count(t) = 0 => ~Busy)
    BY <1>5 DEF RdLoop, MustWait
  <2>2. MembersInv'
    BY <1>1, <2>1, AdmissionKeeps
  <2>3. waiting' = waiting /\ \A u \in Threads \ {t} : rc'[u] = rc[u]
    BY <2>1, AdmissionLeaves DEF Admission
  <2>4. WaitInv'
    BY <2>1, <2>3, WaitStays
  <2>5. WlkInv'
    BY <1>1, <2>1, WlkKept DEF RdLoop
  <2>6. QED
    BY <1>1, <1>2, <2>1, <2>2, <2>3, <2>4, <2>5, Assembled
<1>6. QED
  BY <1>4, <1>5

LEMMA WrLockStep ==
  ASSUME IInv, NEW t \in Threads, WrLock(t)
  PROVE  IInv'
<1> USE Parts DEF RdPlaces, WrPlaces, Inside, Places, UnchangedW
<1>1. ~freed /\ calls' \in [Threads -> 0..MaxCalls] /\ freed' = freed /\ writing' = writing
  BY CallCounts DEF WrLock
<1>2. wlk' \in Threads \cup {NoThread} /\ depth' \in Nat /\ writing' \subseteq Threads
  BY <1>1 DEF WrLock, TypeOK
<1>3. /\ Go(t, "idle", "wrenter") /\ waiting < MaxCount /\ waiting' = waiting + 1
      /\ zerow' = FALSE
      /\ UNCHANGED <<zeror, readers, writers, writer, rc>>
  BY DEF WrLock
<1>4. MembersInv'
  <2>1. MembersType'
    <3>1. zeror' \in BOOLEAN /\ zerow' \in BOOLEAN
      BY <1>3, Zenon DEF MembersType
    <3>2. QED
      BY <1>3, <3>1, RWConstants DEF MembersType
  <2>2. ReadInv' /\ WriterInv'
    BY <1>1, <1>3 DEF MembersInv, ReadInv, ReadLocks, WriterInv
  <2>3. EventsTellCounters'
    <3>1. writers' + waiting' # 0
      BY <1>3, RWConstants DEF MembersType
    <3>2. QED
      BY <1>3, <3>1 DEF MembersInv, EventsTellCounters
  <2>4. QED
    BY <2>1, <2>2, <2>3 DEF MembersInv
<1>5. WaitInv'
  BY <1>3, WaitBegins
<1>6. WlkInv'
  BY <1>1, <1>3, WlkKept DEF WrLock
<1>7. QED
  BY <1>1, <1>2, <1>3, <1>4, <1>5, <1>6, Assembled

LEMMA WrTestStep ==
  ASSUME IInv, NEW t \in Threads, WrTest(t)
  PROVE  IInv'
<1> USE Parts DEF RdPlaces, WrPlaces, Inside, Places, UnchangedW
<1>1. ~freed /\ freed' = freed /\ calls' \in [Threads -> 0..MaxCalls]
  BY InUse DEF WrTest, WrTestReaders, WrTestRecursive, WrTestFree, TypeOK
<1>2. wlk' \in Threads \cup {NoThread} /\ depth' \in Nat
  BY DEF WrTest, TypeOK
<1>3. CASE WrTestReaders(t)
  BY <1>3, MoveStep DEF WrTest, WrTestReaders
<1>4. CASE WrTestRecursive(t)
  <2>1. /\ Go(t, "wrtest", "leave") /\ writers > 0 /\ waiting' = waiting - 1
        /\ UNCHANGED <<zeror, zerow, readers, writers, writer, rc, writing>>
    BY <1>4 DEF WrTestRecursive
  <2>2. WaitInv' /\ waiting > 0
    BY <2>1, WaitEnds
  <2>3. MembersType'
    <3>1. waiting' \in 0..MaxCount
      BY <2>1, <2>2, RWConstants DEF MembersType
    <3>2. QED
      BY <2>1, <3>1 DEF MembersType
  <2>4. EventsTellCounters'
    <3>1. writers + waiting # 0 /\ writers' + waiting' # 0
      BY <2>1, <2>2 DEF MembersType
    <3>2. QED
      BY <2>1, <3>1 DEF MembersInv, EventsTellCounters
  <2>5. MembersInv'
    BY <2>1, <2>3, <2>4 DEF MembersInv, ReadInv, ReadLocks, WriterInv
  <2>6. WlkInv'
    BY <2>1, WlkKept DEF WrTest
  <2>7. writing' \subseteq Threads /\ \A u \in Threads \ {t} : rc'[u] = rc[u]
    BY <2>1 DEF TypeOK
  <2>8. QED
    BY <1>1, <1>2, <2>1, <2>2, <2>5, <2>6, <2>7, Assembled
<1>5. CASE WrTestFree(t)
  <2>1. /\ Go(t, "wrtest", "idle") /\ readers = 0 /\ writers = 0
        /\ waiting' = waiting - 1 /\ writers' = writers + 1
        /\ zerow' = FALSE /\ writer' = t
        /\ writing' = writing \cup {t}
        /\ UNCHANGED <<zeror, readers, rc>>
    BY <1>5 DEF WrTestFree
  <2>2. WaitInv' /\ waiting > 0
    BY <2>1, WaitEnds
  <2>3. MembersType'
    <3>1. waiting' \in 0..MaxCount /\ writers' = 1
      BY <2>1, <2>2, RWConstants DEF MembersType
    <3>2. zeror' \in BOOLEAN /\ zerow' \in BOOLEAN
      BY <2>1, Zenon DEF MembersType
    <3>3. QED
      BY <2>1, <3>1, <3>2 DEF MembersType
  <2>4. writing = {} /\ writing' = {t}
    BY <2>1 DEF MembersInv, WriterInv
  <2>5. EventsTellCounters'
    <3>1. writers' + waiting' # 0
      BY <2>1, <2>2 DEF MembersType
    <3>2. QED
      BY <2>1, <3>1 DEF MembersInv, EventsTellCounters
  <2>6. MembersInv'
    BY <2>1, <2>3, <2>4, <2>5 DEF MembersInv, ReadInv, ReadLocks, WriterInv
  <2>7. WlkInv'
    BY <2>1, <2>4, WriterTakesWlk DEF WrTest
  <2>8. writing' \subseteq Threads /\ \A u \in Threads \ {t} : rc'[u] = rc[u]
    BY <2>1, <2>4
  <2>9. QED
    BY <1>1, <1>2, <2>1, <2>2, <2>6, <2>7, <2>8, Assembled
<1>6. QED
  BY <1>3, <1>4, <1>5 DEF WrTest
-----------------------------------------------------------------------------
LEMMA TryWrLockStep ==
  ASSUME IInv, NEW t \in Threads, TryWrLock(t)
  PROVE  IInv'
<1> USE Parts DEF RdPlaces, WrPlaces, Inside, Places
<1>1. ~freed /\ calls' \in [Threads -> 0..MaxCalls] /\ freed' = freed /\ writing' = writing
  BY CallCounts DEF TryWrLock
<1>2. UNCHANGED members /\ writing' \subseteq Threads /\ rc' = rc
  BY <1>1 DEF TryWrLock, members, TypeOK
<1>3. MembersInv'
  BY <1>1, <1>2, MembersKept
<1>4. CASE wlk \in {NoThread, t}
  <2>1. Go(t, "idle", "trytest") /\ EnterW(t)
    BY <1>4 DEF TryWrLock
  <2>2. WlkInv' /\ wlk' \in Threads \cup {NoThread} /\ depth' \in Nat
    BY <1>1, <2>1, EnterKeeps
  <2>3. WaitInv'
    BY <1>2, <2>1, WaitStays DEF members
  <2>4. QED
    BY <1>1, <1>2, <1>3, <2>1, <2>2, <2>3, Assembled
<1>5. CASE wlk \notin {NoThread, t}
  <2>1. Go(t, "idle", "idle") /\ UnchangedW
    BY <1>5 DEF TryWrLock
  <2>2. WlkInv' /\ wlk' \in Threads \cup {NoThread} /\ depth' \in Nat
    BY <1>1, <2>1, WlkKept DEF UnchangedW, TypeOK
  <2>3. WaitInv'
    BY <1>2, <2>1, WaitStays DEF members
  <2>4. QED
    BY <1>1, <1>2, <1>3, <2>1, <2>2, <2>3, Assembled
<1>6. QED
  BY <1>4, <1>5

LEMMA TryTestStep ==
  ASSUME IInv, NEW t \in Threads, TryTest(t)
  PROVE  IInv'
<1> USE Parts DEF RdPlaces, WrPlaces, Inside, Places, UnchangedW
<1>1. ~freed /\ freed' = freed /\ calls' \in [Threads -> 0..MaxCalls]
  BY InUse DEF TryTest, TypeOK
<1>2. wlk' \in Threads \cup {NoThread} /\ depth' \in Nat
  BY DEF TryTest, TypeOK
<1>3. CASE readers = 0 /\ writers = 0
  <2>1. /\ Go(t, "trytest", "idle")
        /\ writers' = writers + 1
        /\ zerow' = FALSE /\ writer' = t
        /\ writing' = writing \cup {t}
        /\ UNCHANGED <<zeror, readers, waiting, rc>>
    BY <1>3 DEF TryTest
  <2>2. writing = {} /\ writing' = {t} /\ writers' = 1
    BY <1>3, <2>1 DEF MembersInv, WriterInv
  <2>3. MembersType'
    <3>1. zeror' \in BOOLEAN /\ zerow' \in BOOLEAN
      BY <2>1, <2>2, Zenon DEF MembersType
    <3>2. QED
      BY <2>1, <2>2, <3>1 DEF MembersType
  <2>4. EventsTellCounters'
    <3>1. writers' + waiting' # 0
      BY <2>1, <2>2 DEF MembersType
    <3>2. QED
      BY <2>1, <3>1 DEF MembersInv, EventsTellCounters
  <2>5. MembersInv'
    BY <1>3, <2>1, <2>2, <2>3, <2>4 DEF MembersInv, ReadInv, ReadLocks, WriterInv
  <2>6. WaitInv'
    BY <2>1, WaitStays
  <2>7. WlkInv'
    BY <2>1, <2>2, WriterTakesWlk DEF TryTest
  <2>8. writing' \subseteq Threads /\ \A u \in Threads \ {t} : rc'[u] = rc[u]
    BY <2>1, <2>2
  <2>9. QED
    BY <1>1, <1>2, <2>1, <2>5, <2>6, <2>7, <2>8, Assembled
<1>4. CASE ~(readers = 0 /\ writers = 0)
  BY <1>4, MoveStep DEF TryTest
<1>5. QED
  BY <1>3, <1>4

LEMMA UnlockStep ==
  ASSUME IInv, NEW t \in Threads, Unlock(t)
  PROVE  IInv'
<1> USE Parts DEF RdPlaces, WrPlaces, Inside, Places, UnchangedW
<1>1. ~freed /\ freed' = freed /\ calls' \in [Threads -> 0..MaxCalls]
  BY DEF Unlock, TypeOK
<1>2. wlk' \in Threads \cup {NoThread} /\ depth' \in Nat
  BY DEF Unlock, TypeOK
<1>3. CASE UnlockWriter(t)
  <2>1. /\ Go(t, "idle", "leave") /\ writers > 0 /\ writer = t
        /\ writers' = writers - 1
        /\ writing' = writing \ {t}
        /\ UNCHANGED <<zeror, readers, waiting, writer, rc>>
    BY <1>3 DEF UnlockWriter
  <2>0. zerow' = IF waiting = 0 /\ writers = 1 THEN TRUE ELSE zerow
    BY <1>3 DEF UnlockWriter
  <2>2. writers = 1 /\ writing = {t} /\ writing' = {} /\ writers' = 0
    BY <2>1 DEF MembersInv, MembersType, WriterInv
  <2>3. zerow' <=> waiting' = 0
    <3>1. zerow = FALSE
      BY <2>2 DEF MembersInv, MembersType, EventsTellCounters
    <3>2. QED
      BY <2>0, <2>1, <2>2, <3>1
  <2>4. zerow' \in BOOLEAN
    BY <2>0, Zenon DEF MembersType
  <2>5. MembersType'
    <3>1. zeror' \in BOOLEAN /\ zerow' \in BOOLEAN
      BY <2>1, <2>2, <2>4, Zenon DEF MembersType
    <3>2. QED
      BY <2>1, <2>2, <2>4, <3>1 DEF MembersType
  <2>6. EventsTellCounters'
    BY <2>1, <2>2, <2>3 DEF MembersInv, MembersType, EventsTellCounters
  <2>7. MembersInv'
    BY <2>1, <2>2, <2>5, <2>6 DEF MembersInv, ReadInv, ReadLocks, WriterInv
  <2>8. WaitInv'
    BY <2>1, WaitStays
  <2>9. WlkInv'
    BY <2>1, <2>2, WriterGivesWlk DEF Unlock
  <2>10. writing' \subseteq Threads /\ \A u \in Threads \ {t} : rc'[u] = rc[u]
    BY <2>1, <2>2
  <2>11. QED
    BY <1>1, <1>2, <2>1, <2>7, <2>8, <2>9, <2>10, Assembled
<1>4. CASE UnlockReader(t)
  <2>1. /\ Go(t, "idle", "idle") /\ writers = 0 /\ rc[t] > 0
        /\ rc' = [rc EXCEPT ![t] = IF @ = 1 THEN -1 ELSE @ - 1]
        /\ readers' = readers - 1
        /\ UNCHANGED <<zerow, writers, waiting, writer, writing>>
    BY <1>4 DEF UnlockReader
  <2>0. zeror' = IF readers = 1 THEN TRUE ELSE zeror
    BY <1>4 DEF UnlockReader
  <2>2. ReadInv' /\ readers > 0
    BY <2>1, ReadLess DEF MembersInv
  <2>3. zeror' <=> readers' = 0
    <3>1. zeror = FALSE
      BY <2>2 DEF MembersInv, MembersType, EventsTellCounters
    <3>2. QED
      BY <2>0, <2>1, <2>2, <3>1 DEF MembersType
  <2>4. zeror' \in BOOLEAN
    BY <2>0, Zenon DEF MembersType
  <2>5. MembersType'
    <3>1. zeror' \in BOOLEAN /\ zerow' \in BOOLEAN
      BY <2>1, <2>2, <2>4, Zenon DEF MembersType
    <3>2. QED
      BY <2>1, <2>2, <2>4, <3>1, RWConstants DEF MembersType
  <2>6. EventsTellCounters' /\ WriterInv'
    BY <2>1, <2>3 DEF MembersInv, EventsTellCounters, WriterInv
  <2>7. WaitInv'
    BY <2>1, WaitStays
  <2>8. WlkInv'
    BY <2>1, WlkKept DEF Unlock
  <2>9. writing' \subseteq Threads /\ \A u \in Threads \ {t} : rc'[u] = rc[u]
    BY <2>1 DEF MembersType, TypeOK
  <2>10. QED
    BY <1>1, <1>2, <2>1, <2>2, <2>5, <2>6, <2>7, <2>8, <2>9, Assembled DEF MembersInv
<1>5. QED
  BY <1>3, <1>4 DEF Unlock

\* The counters that destroy finds zero say that nobody holds the lock or waits.
LEMMA DestroyStep ==
  ASSUME IInv, NEW t \in Threads, Destroy(t)
  PROVE  IInv'
<1> USE Parts DEF UnchangedW
<1>1. /\ Go(t, "idle", "idle") /\ Unused /\ freed' = TRUE
      /\ \A u \in Threads : pc[u] \notin {"trytest", "leave"}
      /\ UNCHANGED <<wlk, depth, members, writing, calls>>
  BY DEF Destroy
<1>2. pc' = pc
  BY <1>1 DEF Go, TypeOK
<1>3. UNCHANGED <<zeror, zerow, readers, writers, waiting, writer, rc>>
  BY <1>1 DEF members
<1>4. writing = {}
  BY <1>1 DEF Unused, MembersInv, WriterInv
<1>5. Waiters = {}
  BY <1>1, FiniteWaiters, FS_EmptySet DEF Unused, WaitInv
<1>6. \A u \in Threads : pc[u] = "idle" /\ rc[u] = -1
  <2> SUFFICES ASSUME NEW u \in Threads
               PROVE  pc[u] = "idle" /\ rc[u] = -1
    OBVIOUS
  <2>1. rc[u] = -1
    BY <1>1 DEF Unused
  <2>2. pc[u] \notin RdPlaces
    BY <2>1 DEF EntryInv
  <2>3. pc[u] \notin WrPlaces
    BY <1>5 DEF Waiters
  <2>4. QED
    BY <1>1, <2>1, <2>2, <2>3 DEF TypeOK, Places, RdPlaces, WrPlaces
<1>7. DestroyedUnused'
  BY <1>1, <1>2, <1>3, <1>4, <1>6 DEF DestroyedUnused
<1>8. TypeOK'
  <2>1. freed' \in BOOLEAN /\ zeror' \in BOOLEAN /\ zerow' \in BOOLEAN
    BY <1>1, <1>3, Zenon DEF MembersType
  <2>2. QED
    BY <1>1, <1>2, <1>3, <2>1 DEF TypeOK
<1>9. MembersInv'
  BY <1>1, MembersKept
<1>10. WaitInv' /\ WlkInv' /\ EntryInv'
  BY <1>1, <1>2, <1>3 DEF WaitInv, Waiters, WlkInv, EntryInv
<1>11. QED
  BY <1>7, <1>8, <1>9, <1>10 DEF IInv, MembersInv
-----------------------------------------------------------------------------
LEMMA Initially == Init => IInv
<1> SUFFICES ASSUME Init
             PROVE  IInv
  OBVIOUS
<1> USE RWConstants DEF Init
<1>1. TypeOK
  <2>1. zeror \in BOOLEAN /\ zerow \in BOOLEAN /\ freed \in BOOLEAN
    BY Zenon
  <2>2. QED
    BY <2>1 DEF TypeOK, Places
<1>2. ReadLocks = {} /\ Waiters = {}
  BY DEF ReadLocks, Waiters, WrPlaces
<1>3. ReadInv /\ WaitInv
  BY <1>2, FS_EmptySet DEF ReadInv, WaitInv
<1>4. WriterInv /\ WlkInv /\ EntryInv /\ EventsTellCounters /\ DestroyedUnused
  BY DEF WriterInv, WlkInv, Inside, EntryInv, RdPlaces, EventsTellCounters, DestroyedUnused
<1>5. QED
  BY <1>1, <1>3, <1>4 DEF IInv

LEMMA Inductive == IInv /\ [Next]_vars => IInv'
<1> SUFFICES ASSUME IInv, [Next]_vars
             PROVE  IInv'
  OBVIOUS
<1>1. ASSUME NEW t \in Threads,
             RdLock(t) \/ TryRdLock(t) \/ WrLock(t) \/ TryWrLock(t) \/ Unlock(t) \/ Destroy(t)
      PROVE  IInv'
  BY <1>1, RdLockStep, TryRdLockStep, WrLockStep, TryWrLockStep, UnlockStep, DestroyStep
<1>2. ASSUME NEW t \in Threads, Step(t)
      PROVE  IInv'
  BY <1>2, MovesKeep, RdTestStep, RdLoopStep, WrTestStep, TryTestStep DEF Step
<1>3. CASE UNCHANGED vars
  <2>1. /\ UNCHANGED <<wlk, depth, freed, writing, pc, calls>>
        /\ UNCHANGED <<zeror, zerow, readers, writers, waiting, writer, rc>>
    BY <1>3 DEF vars, members
  <2>2. TypeOK'
    <3>1. freed' \in BOOLEAN /\ zeror' \in BOOLEAN /\ zerow' \in BOOLEAN
      BY <2>1, Zenon DEF IInv, TypeOK
    <3>2. QED
      BY <2>1, <3>1 DEF IInv, TypeOK
  <2>3. QED
    BY <2>1, <2>2 DEF IInv, ReadInv, ReadLocks, WriterInv, WaitInv, Waiters, WlkInv,
                      EntryInv, EventsTellCounters, DestroyedUnused
<1>4. QED
  BY <1>1, <1>2, <1>3 DEF Next
-----------------------------------------------------------------------------
\* The invariant holds of every state that the lock can be in.
THEOREM Invariance == Spec => []IInv
<1>1. QED
  BY Initially, Inductive, PTL DEF Spec

\* The members stay in their ranges: no counter passes UINT_MAX or falls below
\* zero, there is never a second writer, and wlk is left as often as entered.
THEOREM TypeCorrect == Spec => []TypeOK
<1>1. IInv => TypeOK
  BY DEF IInv
<1>2. QED
  BY <1>1, Invariance, PTL

\* A writer is alone, for any number of threads and recursive readers.
THEOREM WriterAlone == Spec => []MutualExclusion
<1>1. IInv => MutualExclusion
  <2> SUFFICES ASSUME IInv, NEW t \in writing, NEW u \in Threads
               PROVE  rc[u] < 1 /\ (u \in writing => u = t)
    BY DEF MutualExclusion
  <2>1. writers = 1
    BY DEF IInv, WriterInv, TypeOK
  <2>2. writing = {writer} /\ readers = 0
    BY <2>1 DEF IInv, WriterInv
  <2>3. ~(rc[u] > 0)
    BY <2>2, ReaderCounted DEF IInv
  <2>4. QED
    BY <2>2, <2>3, RWConstants DEF IInv, TypeOK
<1>2. QED
  BY <1>1, Invariance, PTL

\* Each event is set exactly when the count it stands for is zero.
THEOREM EventsExact == Spec => []EventsTellCounters
<1>1. IInv => EventsTellCounters
  BY DEF IInv
<1>2. QED
  BY <1>1, Invariance, PTL

\* The test that destroy makes finds everyone who has shown that he uses the lock.
THEOREM DestroySafe == Spec => []DestroyedUnused
<1>1. IInv => DestroyedUnused
  BY DEF IInv
<1>2. QED
  BY <1>1, Invariance, PTL

\* No step lets a thread in for reading while a writer has the lock or waits.
THEOREM WritersFirst == Spec => ReadersGiveWay
<1>1. IInv /\ [Next]_vars => [\A t \in Threads : rc[t] < 1 /\ rc'[t] > 0 => ~Busy]_vars
  <2> SUFFICES ASSUME IInv, Next, NEW t \in Threads, rc[t] < 1, rc'[t] > 0, Busy
               PROVE  FALSE
    BY DEF Busy
  <2>1. TypeOK /\ EntryInv /\ Count(t) = 0 /\ ~(rc[t] = rc'[t])
    BY RWConstants DEF IInv, TypeOK, Count
  <2>2. PICK u \in Threads :
          \/ RdLock(u) \/ TryRdLock(u) \/ WrLock(u) \/ TryWrLock(u)
          \/ Unlock(u) \/ Destroy(u)
          \/ Step(u)
    BY DEF Next
  <2>3. CASE RdLock(u) \/ RdLoop(u) \/ RdTest(u) \/ TryRdLock(u)
    BY <2>1, <2>3, RWConstants
       DEF RdLock, RdLoop, RdTest, RdTestBusy, TryRdLock, MustWait, Admission, Admit, Refuse,
           Count, members, TypeOK, Busy
  <2>4. CASE Unlock(u)
    <3>1. CASE UnlockWriter(u)
      BY <2>1, <3>1 DEF UnlockWriter
    <3>2. CASE UnlockReader(u)
      <4>1. u # t /\ rc'[t] = rc[t]
        BY <3>2 DEF UnlockReader, IInv, TypeOK
      <4>2. QED
        BY <2>1, <4>1
    <3>3. QED
      BY <2>4, <3>1, <3>2 DEF Unlock
  <2>5. CASE WrLock(u) \/ TryWrLock(u) \/ Destroy(u) \/ WrTest(u) \/ TryTest(u)
    BY <2>1, <2>5 DEF WrLock, TryWrLock, Destroy, WrTest, WrTestReaders, WrTestRecursive,
                      WrTestFree, TryTest, members
  <2>6. CASE RdWait(u) \/ RdEnter(u) \/ RdLeave(u) \/ WrEnter(u) \/ WrLeave(u) \/ WrWait(u)
             \/ Leave(u)
    BY <2>1, <2>6 DEF RdWait, RdEnter, RdLeave, WrEnter, WrLeave, WrWait, Leave, members
  <2>7. QED
    BY <2>2, <2>3, <2>4, <2>5, <2>6 DEF Step
<1>2. QED
  BY <1>1, Invariance, PTL DEF Spec, ReadersGiveWay
=============================================================================
