----------------------------- MODULE XpSemProofs -----------------------------
(***************************************************************************)
(* For any number of threads, any XP_SEM_VALUE_MAX and any number of calls *)
(* the semaphore of xpsem.c loses no wakeup, is not touched after it has   *)
(* been freed, and implements the atomic semaphore.                        *)
(***************************************************************************)
EXTENDS XpSem, FiniteSetTheorems, TLAPS

LEMMA WaitersFinite ==
  ASSUME TypeOK
  PROVE  IsFiniteSet(Waiters)
BY FS_Subset, SemConstants DEF Waiters

\* A thread that leaves pthread_cond_wait, as nwaiters-- of the loops.
LEMMA WaiterLeaves ==
  ASSUME TypeOK, WaitersCounted, NEW t \in Threads, pc[t] \in {"locking", "waking"},
         Waiters' = Waiters \ {t}
  PROVE  /\ WaitersSeenBy(t) = Cardinality(Waiters')
         /\ WaitersSeenBy(t) \in Nat
<1>1. CASE pc[t] = "waking"
  <2>1. t \in Waiters
    BY <1>1 DEF Waiters
  <2>2. Cardinality(Waiters \ {t}) = Cardinality(Waiters) - 1
    BY <2>1, WaitersFinite, FS_RemoveElement
  <2>3. Cardinality(Waiters \ {t}) \in Nat
    BY WaitersFinite, FS_RemoveElement, FS_CardinalityType
  <2>4. QED
    BY <1>1, <2>2, <2>3 DEF WaitersSeenBy, WaitersCounted
<1>2. CASE pc[t] = "locking"
  <2>1. t \notin Waiters
    BY <1>2 DEF Waiters
  <2>2. QED
    BY <1>2, <2>1 DEF WaitersSeenBy, WaitersCounted, TypeOK
<1>3. QED
  BY <1>1, <1>2

\* A thread that enters it.
LEMMA WaiterSleeps ==
  ASSUME TypeOK, WaitersCounted, NEW t \in Threads, pc[t] \in {"locking", "waking"},
         Waiters' = Waiters \cup {t}
  PROVE  /\ WaitersSeenBy(t) + 1 = Cardinality(Waiters')
         /\ WaitersSeenBy(t) + 1 \in Nat
<1>1. CASE pc[t] = "waking"
  <2>1. t \in Waiters
    BY <1>1 DEF Waiters
  <2>2. Cardinality(Waiters') = Cardinality(Waiters)
    BY <2>1, Waiters' = Waiters
  <2>3. WaitersSeenBy(t) + 1 = nwaiters
    BY <1>1 DEF WaitersSeenBy, TypeOK
  <2>4. QED
    BY <2>2, <2>3 DEF WaitersCounted, TypeOK
<1>2. CASE pc[t] = "locking"
  <2>1. t \notin Waiters
    BY <1>2 DEF Waiters
  <2>2. Cardinality(Waiters') = Cardinality(Waiters) + 1
    BY <2>1, WaitersFinite, FS_AddElement
  <2>3. WaitersSeenBy(t) = nwaiters
    BY <1>2 DEF WaitersSeenBy
  <2>4. QED
    BY <2>2, <2>3 DEF WaitersCounted, TypeOK
<1>3. QED
  BY <1>1, <1>2

\* nwaiters = 0 says that nobody is inside pthread_cond_wait.
LEMMA NobodyWaits ==
  ASSUME TypeOK, WaitersCounted
  PROVE  nwaiters = 0 <=> Waiters = {}
BY WaitersFinite, FS_EmptySet DEF WaitersCounted
-----------------------------------------------------------------------------
LEMMA InvInit == Init => IInv
<1> SUFFICES ASSUME Init PROVE IInv
  OBVIOUS
<1> USE SemConstants DEF Init
<1>1. TypeOK
  <2>1. freed \in BOOLEAN /\ expired \in [Threads -> BOOLEAN]
    BY Zenon
  <2>2. /\ lock \in Threads \cup {NoThread}
        /\ count \in 0..ValueMax
        /\ nwaiters \in Nat
        /\ calls \in [Threads -> 0..MaxCalls]
    OBVIOUS
  <2>3. /\ pc \in [Threads -> Places]
        /\ op \in [Threads -> Kinds]
        /\ outcome \in [Threads -> Outcomes]
    BY DEF Places, Kinds, WaitKinds, Outcomes
  <2>4. QED
    BY <2>1, <2>2, <2>3 DEF TypeOK
<1>2. LockInv /\ PlaceInv /\ DestroyInv /\ NoUseAfterFree
  BY DEF LockInv, HoldsLock, PlaceInv, DestroyInv, Destroying, NoUseAfterFree
<1>3. WaitersCounted /\ NoLostWakeup
  <2>1. Waiters = {} /\ Asleep = {}
    BY DEF Waiters, Asleep
  <2>2. QED
    BY <2>1, FS_EmptySet DEF WaitersCounted, NoLostWakeup
<1>4. QED
  BY <1>1, <1>2, <1>3 DEF IInv
-----------------------------------------------------------------------------
\* The call of a thread that holds the mutex is decided.
LEMMA DecideType ==
  ASSUME TypeOK, NEW t \in Threads, NEW result \in Outcomes, Decide(t, result),
         count' \in 0..ValueMax, nwaiters' \in Nat
  PROVE  TypeOK'
<1>1. /\ lock' \in Threads \cup {NoThread}
      /\ pc' \in [Threads -> Places]
      /\ outcome' \in [Threads -> Outcomes]
      /\ freed' \in BOOLEAN
      /\ op' \in [Threads -> Kinds]
      /\ calls' \in [Threads -> 0..MaxCalls]
  BY DEF TypeOK, Decide, Places
<1>2. expired' \in [Threads -> BOOLEAN]
  BY Zenon DEF TypeOK, Decide
<1>3. QED
  BY <1>1, <1>2 DEF TypeOK

\* What every action that runs Decide leaves of the places, the lock and the
\* contract of destroy.
LEMMA DecideInv ==
  ASSUME IInv, NEW t \in Threads, NEW result, AtTest(t), Decide(t, result)
  PROVE  /\ LockInv' /\ PlaceInv' /\ DestroyInv' /\ NoUseAfterFree'
         /\ Waiters' = Waiters \ {t}
         /\ Asleep' = Asleep
<1> USE DEF IInv, TypeOK
<1>1. LockInv'
  BY SemConstants DEF LockInv, HoldsLock, Decide, AtTest
<1>2. PlaceInv'
  BY DEF PlaceInv, Decide, AtTest
<1>3. DestroyInv'
  BY SemConstants DEF DestroyInv, Destroying, Decide, AtTest, PlaceInv
<1>4. NoUseAfterFree'
  BY DEF NoUseAfterFree, Decide, AtTest
<1>5. Waiters' = Waiters \ {t} /\ Asleep' = Asleep
  BY DEF Waiters, Asleep, Decide, AtTest
<1>6. QED
  BY <1>1, <1>2, <1>3, <1>4, <1>5

LEMMA InvBegin ==
  ASSUME IInv, NEW t \in Threads, NEW kind \in Kinds, Begin(t, kind)
  PROVE  IInv'
<1> USE DEF IInv
<1>1. TypeOK'
  <2>1. calls' \in [Threads -> 0..MaxCalls]
    BY SemConstants DEF TypeOK, Begin
  <2>2. freed' \in BOOLEAN /\ expired' \in [Threads -> BOOLEAN]
    BY Zenon DEF TypeOK, Begin
  <2>3. QED
    BY <2>1, <2>2 DEF TypeOK, Begin, Places
<1>2. LockInv' /\ PlaceInv' /\ NoUseAfterFree'
  BY DEF TypeOK, LockInv, HoldsLock, PlaceInv, NoUseAfterFree, Begin, MayBegin
<1>3. DestroyInv'
  BY SemConstants DEF TypeOK, PlaceInv, DestroyInv, Destroying, Begin, MayBegin
<1>4. Waiters' = Waiters /\ Asleep' = Asleep
  BY DEF TypeOK, Waiters, Asleep, Begin
<1>5. WaitersCounted' /\ NoLostWakeup'
  BY <1>4 DEF WaitersCounted, NoLostWakeup, Begin
<1>6. QED
  BY <1>1, <1>2, <1>3, <1>5

\* The critical sections that end a wait or a try, or refuse a destroy.
LEMMA InvDecided ==
  ASSUME IInv, NEW t \in Threads, Take(t) \/ Expire(t) \/ TryFails(t) \/ DestroyRefused(t)
  PROVE  IInv'
<1> USE DEF IInv
<1>1. PICK result \in Outcomes : AtTest(t) /\ Decide(t, result)
  BY DEF Take, Expire, TryFails, DestroyRefused, Outcomes
<1>2. /\ LockInv' /\ PlaceInv' /\ DestroyInv' /\ NoUseAfterFree'
      /\ Waiters' = Waiters \ {t}
      /\ Asleep' = Asleep
  BY <1>1, DecideInv
<1>3. nwaiters' = WaitersSeenBy(t)
  <2>1. CASE Take(t) \/ Expire(t)
    BY <2>1 DEF Take, Expire
  <2>2. CASE TryFails(t) \/ DestroyRefused(t)
    <3>1. pc[t] # "waking"
      BY <2>2 DEF TryFails, DestroyRefused, PlaceInv, WaitKinds
    <3>2. QED
      BY <2>2, <3>1 DEF TryFails, DestroyRefused, WaitersSeenBy
  <2>3. QED
    BY <2>1, <2>2
<1>4. nwaiters' = Cardinality(Waiters') /\ nwaiters' \in Nat
  BY <1>1, <1>2, <1>3, WaiterLeaves DEF AtTest
<1>5. count' \in 0..ValueMax /\ count' <= count
  BY SemConstants DEF TypeOK, Take, Expire, TryFails, DestroyRefused
<1>6. TypeOK'
  BY <1>1, <1>4, <1>5, DecideType
<1>7. NoLostWakeup'
  BY <1>2, <1>5 DEF NoLostWakeup, TypeOK
<1>8. QED
  BY <1>2, <1>4, <1>6, <1>7 DEF WaitersCounted

LEMMA InvSleep ==
  ASSUME IInv, NEW t \in Threads, Sleep(t)
  PROVE  IInv'
<1> USE DEF IInv
<1>1. Waiters' = Waiters \cup {t}
  BY DEF TypeOK, Waiters, Sleep
<1>2. nwaiters' = Cardinality(Waiters') /\ nwaiters' \in Nat
  BY <1>1, WaiterSleeps DEF Sleep, AtTest
<1>3. TypeOK'
  <2>1. freed' \in BOOLEAN /\ expired' \in [Threads -> BOOLEAN]
    BY Zenon DEF TypeOK, Sleep
  <2>2. QED
    BY <1>2, <2>1 DEF TypeOK, Sleep, Places
<1>4. LockInv' /\ PlaceInv' /\ DestroyInv' /\ NoUseAfterFree'
  BY SemConstants DEF TypeOK, LockInv, HoldsLock, PlaceInv, DestroyInv, Destroying,
                      NoUseAfterFree, Sleep, AtTest
<1>5. NoLostWakeup'
  BY DEF NoLostWakeup, Sleep, TypeOK
<1>6. QED
  BY <1>2, <1>3, <1>4, <1>5 DEF WaitersCounted

LEMMA InvPost ==
  ASSUME IInv, NEW t \in Threads, Post(t)
  PROVE  IInv'
<1> USE DEF IInv
<1>1. CASE PostOverflows(t)
  <2>1. "overflow" \in Outcomes /\ AtTest(t) /\ Decide(t, "overflow")
    BY <1>1 DEF PostOverflows, Post, Outcomes
  <2>2. /\ LockInv' /\ PlaceInv' /\ DestroyInv' /\ NoUseAfterFree'
        /\ Waiters' = Waiters \ {t}
        /\ Asleep' = Asleep
    BY <2>1, DecideInv
  <2>3. t \notin Waiters
    BY DEF Post, Waiters, PlaceInv, WaitKinds
  <2>4. Waiters' = Waiters
    BY <2>2, <2>3
  <2>5. WaitersCounted' /\ NoLostWakeup'
    BY <1>1, <2>2, <2>4 DEF WaitersCounted, NoLostWakeup, PostOverflows
  <2>6. TypeOK'
    BY <1>1, <2>1, DecideType DEF PostOverflows, TypeOK
  <2>7. QED
    BY <2>2, <2>5, <2>6
<1>2. CASE PostStores(t)
  <2>1. pc[t] = "locking" /\ lock = NoThread
    BY DEF Post, AtTest, PlaceInv, WaitKinds
  <2>2. \A u \in Threads : pc'[u] = IF u = t THEN "unlocking"
                                    ELSE IF u \in WokenBy(t) THEN "waking" ELSE pc[u]
    BY <1>2 DEF PostStores
  <2>3. WokenBy(t) = Asleep
    <3>1. nwaiters = 0 => Asleep = {}
      BY NobodyWaits DEF Waiters, Asleep
    <3>2. QED
      BY <3>1 DEF WokenBy, TypeOK
  <2>4. Asleep' = {}
    BY <2>2, <2>3 DEF Asleep
  <2>5. Waiters' = Waiters
    BY <2>1, <2>2, <2>3 DEF Asleep, Waiters
  <2>6. TypeOK'
    <3>1. freed' \in BOOLEAN /\ expired' \in [Threads -> BOOLEAN]
      BY <1>2, Zenon DEF TypeOK, PostStores
    <3>2. pc' \in [Threads -> Places] /\ outcome' \in [Threads -> Outcomes]
      BY <1>2 DEF TypeOK, PostStores, Places, Outcomes
    <3>3. QED
      BY <1>2, <3>1, <3>2, SemConstants DEF TypeOK, PostStores
  <2>7. LockInv' /\ PlaceInv' /\ NoUseAfterFree'
    BY <1>2, <2>1, <2>2, <2>3, SemConstants
       DEF TypeOK, LockInv, HoldsLock, PlaceInv, NoUseAfterFree, PostStores, Asleep
  <2>8. DestroyInv'
    BY <1>2, <2>1, <2>2, <2>3, SemConstants
       DEF DestroyInv, Destroying, PostStores, Asleep, LockInv, HoldsLock
  <2>9. WaitersCounted' /\ NoLostWakeup'
    BY <1>2, <2>4, <2>5 DEF WaitersCounted, NoLostWakeup, PostStores
  <2>10. QED
    BY <2>6, <2>7, <2>8, <2>9
<1>3. QED
  BY <1>1, <1>2 DEF Post

LEMMA InvDestroy ==
  ASSUME IInv, NEW t \in Threads, DestroyChecks(t) \/ Unlock(t) \/ Free(t)
  PROVE  IInv'
<1> USE DEF IInv
<1>1. Waiters' = Waiters /\ Asleep' = Asleep
  <2>1. CASE DestroyChecks(t)
    BY <2>1 DEF TypeOK, PlaceInv, WaitKinds, Waiters, Asleep, DestroyChecks, AtTest
  <2>2. CASE Unlock(t) \/ Free(t)
    BY <2>2 DEF TypeOK, Waiters, Asleep, Unlock, Free
  <2>3. QED
    BY <2>1, <2>2
<1>2. WaitersCounted' /\ NoLostWakeup'
  BY <1>1 DEF WaitersCounted, NoLostWakeup, DestroyChecks, Unlock, Free
<1>3. TypeOK'
  <2>1. freed' \in BOOLEAN
    <3>1. CASE DestroyChecks(t) \/ Unlock(t)
      BY <3>1, Zenon DEF TypeOK, DestroyChecks, Unlock
    <3>2. CASE Free(t)
      BY <3>2, Zenon DEF Free
    <3>3. QED
      BY <3>1, <3>2
  <2>2. expired' \in [Threads -> BOOLEAN]
    BY Zenon DEF TypeOK, DestroyChecks, Unlock, Free
  <2>3. QED
    BY <2>1, <2>2 DEF TypeOK, DestroyChecks, Unlock, Free, Places, Outcomes
<1>4. CASE DestroyChecks(t)
  <2>1. t = Owner /\ pc[t] = "locking"
    BY <1>4 DEF DestroyChecks, AtTest, PlaceInv, WaitKinds
  <2>2. Waiters = {}
    BY <1>4, NobodyWaits DEF DestroyChecks
  <2>3. \A u \in Threads \ {Owner} : pc[u] = "idle"
    <3> TAKE u \in Threads \ {Owner}
    <3>1. pc[u] \notin {"asleep", "waking"}
      BY <2>2 DEF Waiters
    <3>2. pc[u] \notin {"unlocking", "checked"}
      BY <1>4, SemConstants DEF LockInv, HoldsLock, DestroyChecks, AtTest
    <3>3. pc[u] # "locking"
      BY <1>4, <2>1 DEF DestroyInv, Destroying, DestroyChecks
    <3>4. pc[u] # "destroying"
      BY DEF PlaceInv
    <3>5. QED
      BY <3>1, <3>2, <3>3, <3>4 DEF TypeOK, Places
  <2>4. QED
    BY <1>2, <1>3, <1>4, <2>1, <2>3, SemConstants
       DEF TypeOK, LockInv, HoldsLock, PlaceInv, DestroyInv, Destroying, NoUseAfterFree,
           DestroyChecks, AtTest
<1>5. CASE Unlock(t)
  BY <1>2, <1>3, <1>5, SemConstants
     DEF TypeOK, LockInv, HoldsLock, PlaceInv, DestroyInv, Destroying, NoUseAfterFree, Unlock
<1>6. CASE Free(t)
  <2>1. t = Owner
    BY <1>6 DEF Free, PlaceInv
  <2>2. QED
    BY <1>2, <1>3, <1>6, <2>1, SemConstants
       DEF TypeOK, LockInv, HoldsLock, PlaceInv, DestroyInv, Destroying, NoUseAfterFree, Free
<1>7. QED
  BY <1>4, <1>5, <1>6

LEMMA InvWake ==
  ASSUME IInv, NEW t \in Threads, NEW timeout \in BOOLEAN, Wake(t, timeout)
  PROVE  IInv'
<1> USE DEF IInv
<1>1. Waiters' = Waiters /\ Asleep' = Asleep \ {t}
  BY DEF TypeOK, Waiters, Asleep, Wake
<1>2. WaitersCounted' /\ NoLostWakeup'
  BY <1>1 DEF WaitersCounted, NoLostWakeup, Wake
<1>3. TypeOK'
  <2>1. freed' \in BOOLEAN /\ expired' \in [Threads -> BOOLEAN]
    BY Zenon DEF TypeOK, Wake
  <2>2. QED
    BY <2>1 DEF TypeOK, Wake, Places
<1>4. LockInv' /\ DestroyInv' /\ NoUseAfterFree'
  BY DEF TypeOK, LockInv, HoldsLock, DestroyInv, Destroying, NoUseAfterFree, Wake
<1>5. PlaceInv'
  BY DEF TypeOK, PlaceInv, WaitKinds, Wake
<1>6. QED
  BY <1>2, <1>3, <1>4, <1>5

LEMMA InvNext == IInv /\ [Next]_vars => IInv'
<1> SUFFICES ASSUME IInv, [Next]_vars PROVE IInv'
  OBVIOUS
<1>1. CASE UNCHANGED vars
  BY <1>1 DEF vars, IInv, TypeOK, LockInv, HoldsLock, PlaceInv, DestroyInv, Destroying,
              WaitersCounted, NoLostWakeup, NoUseAfterFree, Waiters, Asleep
<1>2. CASE Next
  <2> PICK t \in Threads :
        \/ \E kind \in Kinds : Begin(t, kind)
        \/ Take(t) \/ Sleep(t) \/ Expire(t) \/ TryFails(t)
        \/ Post(t)
        \/ DestroyRefused(t) \/ DestroyChecks(t) \/ Free(t)
        \/ Unlock(t)
        \/ \E timeout \in BOOLEAN : Wake(t, timeout)
    BY <1>2 DEF Next
  <2> QED
    BY InvBegin, InvDecided, InvSleep, InvPost, InvDestroy, InvWake
<1>3. QED
  BY <1>1, <1>2
-----------------------------------------------------------------------------
\* The inductive invariant of the semaphore of xpsem.c.
THEOREM Invariance == Spec => []IInv
BY InvInit, InvNext, PTL DEF Spec

\* The types of xpsem.c's fields and of the threads' places.
THEOREM TypeCorrect == Spec => []TypeOK
<1>1. IInv => TypeOK
  BY DEF IInv
<1>2. QED
  BY <1>1, Invariance, PTL

\* Nobody sleeps in xp_sem_wait or xp_sem_timedwait while a token is available.
THEOREM WakeupsKept == Spec => []NoLostWakeup
<1>1. IInv => NoLostWakeup
  BY DEF IInv
<1>2. QED
  BY <1>1, Invariance, PTL

\* No call is inside a semaphore that xp_sem_destroy has freed.
THEOREM FreedUnused == Spec => []NoUseAfterFree
<1>1. IInv => NoUseAfterFree
  BY DEF IInv
<1>2. QED
  BY <1>1, Invariance, PTL
-----------------------------------------------------------------------------
\* The refinement: each critical section that decides a call is the one atomic
\* step of that call, everything else is a call, a return or a stutter.
AbsStep == Abs!Next \/ UNCHANGED <<freed, count, Pending, outcome>>

\* A critical section that decides the call of t changes no other thread's call.
LEMMA PendingDecided ==
  ASSUME TypeOK, NEW t \in Threads, NEW result, AtTest(t), Decide(t, result)
  PROVE  /\ Pending[t] = op[t]
         /\ Abs!Effect(t, result)
<1>1. Pending[t] = op[t]
  BY DEF Pending, AtTest
<1>2. Pending' = [Pending EXCEPT ![t] = "returning"]
  BY DEF TypeOK, Pending, Decide
<1>3. QED
  BY <1>1, <1>2 DEF Abs!Effect, Decide

LEMMA RefineBegin ==
  ASSUME IInv, NEW t \in Threads, NEW kind \in Kinds, Begin(t, kind)
  PROVE  AbsStep
<1>1. Pending[t] = "none"
  BY DEF Pending, Begin
<1>2. Pending' = [Pending EXCEPT ![t] = kind]
  BY DEF IInv, TypeOK, Pending, Begin
<1>3. Abs!Call(t, kind)
  BY <1>1, <1>2 DEF Abs!Call, Begin
<1>4. kind \in Abs!Kinds
  BY DEF Kinds, WaitKinds, Abs!Kinds
<1>5. QED
  BY <1>3, <1>4 DEF AbsStep, Abs!Next

LEMMA RefineDecided ==
  ASSUME IInv, NEW t \in Threads, Take(t) \/ Expire(t) \/ TryFails(t) \/ DestroyRefused(t)
  PROVE  AbsStep
<1> USE DEF IInv
<1>1. CASE Take(t)
  <2>1. AtTest(t) /\ Decide(t, "ok")
    BY <1>1 DEF Take
  <2>2. ~freed
    BY <2>1 DEF AtTest, NoUseAfterFree
  <2>3. Pending[t] = op[t] /\ Abs!Effect(t, "ok")
    BY <2>1, PendingDecided
  <2>4. Abs!Take(t)
    BY <1>1, <2>1, <2>2, <2>3 DEF Take, WaitKinds, Decide, Abs!Take
  <2>5. QED
    BY <2>4 DEF AbsStep, Abs!Next
<1>2. CASE Expire(t)
  <2>1. AtTest(t) /\ Decide(t, "timeout") /\ op[t] = "timedwait"
    BY <1>2 DEF Expire, PlaceInv
  <2>2. Pending[t] = op[t] /\ Abs!Effect(t, "timeout")
    BY <2>1, PendingDecided
  <2>3. Abs!GiveUp(t)
    BY <1>2, <2>1, <2>2 DEF Expire, Decide, Abs!GiveUp
  <2>4. QED
    BY <2>3 DEF AbsStep, Abs!Next
<1>3. CASE TryFails(t)
  <2>1. AtTest(t) /\ Decide(t, "again")
    BY <1>3 DEF TryFails
  <2>2. Pending[t] = op[t] /\ Abs!Effect(t, "again")
    BY <2>1, PendingDecided
  <2>3. Abs!GiveUp(t)
    BY <1>3, <2>1, <2>2 DEF TryFails, Decide, Abs!GiveUp
  <2>4. QED
    BY <2>3 DEF AbsStep, Abs!Next
<1>4. CASE DestroyRefused(t)
  <2>1. AtTest(t) /\ Decide(t, "busy")
    BY <1>4 DEF DestroyRefused
  <2>2. PICK other \in Threads : pc[other] \in {"asleep", "waking"}
    <3>1. Waiters # {}
      BY <1>4, NobodyWaits DEF DestroyRefused, TypeOK
    <3>2. QED
      BY <3>1 DEF Waiters
  <2>3. Pending[other] \in {"wait", "timedwait"}
    BY <2>2 DEF Pending, PlaceInv, WaitKinds
  <2>4. Pending[t] = op[t] /\ Abs!Effect(t, "busy")
    BY <2>1, PendingDecided
  <2>5. Abs!RefuseDestroy(t)
    BY <1>4, <2>1, <2>3, <2>4 DEF DestroyRefused, Decide, Abs!RefuseDestroy
  <2>6. QED
    BY <2>5 DEF AbsStep, Abs!Next
<1>5. QED
  BY <1>1, <1>2, <1>3, <1>4

LEMMA RefinePost ==
  ASSUME IInv, NEW t \in Threads, Post(t)
  PROVE  AbsStep
<1> USE DEF IInv
<1>1. Pending[t] = "post" /\ ~freed
  BY DEF Post, AtTest, Pending, NoUseAfterFree
<1>2. CASE PostStores(t)
  <2>1. Pending' = [Pending EXCEPT ![t] = "returning"]
    BY <1>2 DEF TypeOK, Pending, PostStores, WokenBy, Asleep
  <2>2. Abs!Post(t)
    BY <1>1, <1>2, <2>1 DEF PostStores, Abs!Post, Abs!Effect
  <2>3. QED
    BY <2>2 DEF AbsStep, Abs!Next
<1>3. CASE PostOverflows(t)
  <2>1. AtTest(t) /\ Decide(t, "overflow")
    BY <1>3 DEF PostOverflows, Post
  <2>2. Abs!Effect(t, "overflow")
    BY <2>1, PendingDecided
  <2>3. Abs!Post(t)
    BY <1>1, <1>3, <2>1, <2>2 DEF PostOverflows, Decide, Abs!Post
  <2>4. QED
    BY <2>3 DEF AbsStep, Abs!Next
<1>4. QED
  BY <1>2, <1>3 DEF Post

\* Steps that are invisible, or the return of a call.
LEMMA RefineSilent ==
  ASSUME IInv, NEW t \in Threads,
         \/ Sleep(t) \/ DestroyChecks(t) \/ Unlock(t)
         \/ \E timeout \in BOOLEAN : Wake(t, timeout)
  PROVE  AbsStep
<1> USE DEF IInv
<1>1. CASE Sleep(t)
  <2>1. Pending' = Pending
    BY <1>1 DEF TypeOK, Pending, Sleep, AtTest
  <2>2. QED
    BY <1>1, <2>1 DEF AbsStep, Sleep
<1>2. CASE DestroyChecks(t)
  <2>1. Pending' = Pending
    BY <1>2 DEF TypeOK, Pending, DestroyChecks, AtTest
  <2>2. QED
    BY <1>2, <2>1 DEF AbsStep, DestroyChecks
<1>3. CASE Unlock(t) /\ pc[t] = "checked"
  <2>1. Pending' = Pending
    BY <1>3 DEF TypeOK, Pending, Unlock
  <2>2. QED
    BY <1>3, <2>1 DEF AbsStep, Unlock
<1>4. CASE Unlock(t) /\ pc[t] = "unlocking"
  <2>1. Pending[t] = "returning"
    BY <1>4 DEF Pending
  <2>2. Pending' = [Pending EXCEPT ![t] = "none"]
    BY <1>4 DEF TypeOK, Pending, Unlock
  <2>3. Abs!Return(t)
    BY <1>4, <2>1, <2>2 DEF Unlock, Abs!Return
  <2>4. QED
    BY <2>3 DEF AbsStep, Abs!Next
<1>5. CASE \E timeout \in BOOLEAN : Wake(t, timeout)
  <2>1. Pending' = Pending
    BY <1>5 DEF TypeOK, Pending, Wake
  <2>2. QED
    BY <1>5, <2>1 DEF AbsStep, Wake
<1>6. QED
  BY <1>1, <1>2, <1>3, <1>4, <1>5 DEF Unlock

LEMMA RefineFree ==
  ASSUME IInv, NEW t \in Threads, Free(t)
  PROVE  AbsStep
<1> USE DEF IInv
<1>1. t = Owner /\ op[t] = "destroy" /\ Pending[t] = "destroy"
  BY DEF Free, PlaceInv, Pending
<1>2. \A other \in Threads \ {t} : Pending[other] = "none"
  BY <1>1 DEF Free, DestroyInv, Pending
<1>3. Pending' = [Pending EXCEPT ![t] = "none"]
  BY DEF TypeOK, Pending, Free
<1>4. ~freed /\ freed' = TRUE
  BY DEF Free, NoUseAfterFree
<1>5. Abs!Destroy(t)
  BY <1>1, <1>2, <1>3, <1>4 DEF Free, Abs!Destroy
<1>6. QED
  BY <1>5 DEF AbsStep, Abs!Next

\* xpsem.c implements the semaphore whose every call is atomic.
THEOREM ImplementsAtomic == Spec => Implements
<1>1. Init => Abs!Init
  BY DEF Init, Abs!Init, Pending
<1>2. IInv /\ [Next]_vars => [Abs!Next]_(Abs!vars)
  <2> SUFFICES ASSUME IInv, [Next]_vars PROVE [Abs!Next]_(Abs!vars)
    OBVIOUS
  <2>1. CASE UNCHANGED vars
    BY <2>1 DEF vars, Abs!vars, Pending
  <2>2. CASE Next
    <3>1. PICK t \in Threads :
            \/ \E kind \in Kinds : Begin(t, kind)
            \/ Take(t) \/ Sleep(t) \/ Expire(t) \/ TryFails(t)
            \/ Post(t)
            \/ DestroyRefused(t) \/ DestroyChecks(t) \/ Free(t)
            \/ Unlock(t)
            \/ \E timeout \in BOOLEAN : Wake(t, timeout)
      BY <2>2 DEF Next
    <3>2. AbsStep
      BY <3>1, RefineBegin, RefineDecided, RefinePost, RefineSilent, RefineFree
    <3>3. QED
      BY <3>2 DEF AbsStep, Abs!vars
  <2>3. QED
    BY <2>1, <2>2
<1>3. QED
  BY <1>1, <1>2, Invariance, PTL DEF Spec, Implements, Abs!Spec
=============================================================================
