---------------------------- MODULE XpEventProofs ----------------------------
(***************************************************************************)
(* For any number of threads and calls and any limit on the waiters, no    *)
(* thread sleeps through an event that is set, the event is not used after *)
(* it has been closed, and xpevent.c implements the atomic event.          *)
(***************************************************************************)
EXTENDS XpEvent, FiniteSetTheorems, TLAPS

LEMMA WaitersFinite ==
  ASSUME TypeOK
  PROVE  IsFiniteSet(Waiters)
BY FS_Subset, EventConstants DEF Waiters

\* A thread that leaves pthread_cond_wait, as nwaiters-- of the loop.
LEMMA WaiterLeaves ==
  ASSUME TypeOK, NEW t \in Threads, pc[t] \in {"locking", "waking"},
         Waiters' = Waiters \ {t}
  PROVE  /\ WaitersSeenBy(t) = Cardinality(Waiters')
         /\ WaitersSeenBy(t) \in Nat
<1>1. CASE pc[t] = "waking"
  <2>1. t \in Waiters
    BY <1>1 DEF Waiters
  <2>2. Cardinality(Waiters \ {t}) = Cardinality(Waiters) - 1
    BY <2>1, WaitersFinite, FS_RemoveElement
  <2>3. Cardinality(Waiters \ {t}) \in Nat
    BY WaitersFinite, FS_RemoveElement, FS_CardinalityType
  <2>4. QED
    BY <1>1, <2>2, <2>3 DEF TypeOK, WaitersSeenBy, WaitersCounted
<1>2. CASE pc[t] = "locking"
  <2>1. t \notin Waiters
    BY <1>2 DEF Waiters
  <2>2. QED
    BY <1>2, <2>1 DEF WaitersSeenBy, WaitersCounted, TypeOK
<1>3. QED
  BY <1>1, <1>2

\* A thread that enters it.
LEMMA WaiterSleeps ==
  ASSUME TypeOK, NEW t \in Threads, pc[t] \in {"locking", "waking"},
         Waiters' = Waiters \cup {t}
  PROVE  /\ WaitersSeenBy(t) + 1 = Cardinality(Waiters')
         /\ WaitersSeenBy(t) + 1 \in Nat
<1>1. CASE pc[t] = "waking"
  <2>1. t \in Waiters
    BY <1>1 DEF Waiters
  <2>2. Cardinality(Waiters') = Cardinality(Waiters)
    BY <2>1, Waiters' = Waiters
  <2>3. WaitersSeenBy(t) + 1 = nwaiters
    BY <1>1 DEF WaitersSeenBy, TypeOK
  <2>4. QED
    BY <2>2, <2>3 DEF WaitersCounted, TypeOK
<1>2. CASE pc[t] = "locking"
  <2>1. t \notin Waiters
    BY <1>2 DEF Waiters
  <2>2. Cardinality(Waiters') = Cardinality(Waiters) + 1
    BY <2>1, WaitersFinite, FS_AddElement
  <2>3. WaitersSeenBy(t) = nwaiters
    BY <1>2 DEF WaitersSeenBy
  <2>4. QED
    BY <2>2, <2>3 DEF WaitersCounted, TypeOK
<1>3. QED
  BY <1>1, <1>2

\* nwaiters = 0 says that nobody is inside pthread_cond_wait.
LEMMA NobodyWaits ==
  ASSUME TypeOK
  PROVE  nwaiters = 0 <=> Waiters = {}
BY WaitersFinite, FS_EmptySet DEF TypeOK, WaitersCounted
-----------------------------------------------------------------------------
LEMMA InvInit == Init => IInv
<1> SUFFICES ASSUME Init PROVE IInv
  OBVIOUS
<1> USE EventConstants DEF Init
<1>1. Waiters = {} /\ Asleep = {}
  BY DEF Waiters, Asleep
<1>2. TypeOK
  <2>1. /\ value \in BOOLEAN /\ mreset \in BOOLEAN /\ freed \in BOOLEAN
        /\ expired \in [Threads -> BOOLEAN]
    BY Zenon
  <2>2. /\ lock \in Threads \cup {NoThread}
        /\ nwaiters \in 0..MaxWaiters
        /\ calls \in 0..MaxCalls
    OBVIOUS
  <2>3. /\ pc \in [Threads -> Places]
        /\ op \in [Threads -> Kinds]
        /\ outcome \in [Threads -> Outcomes]
    BY DEF Places, Kinds, WaitKinds, Outcomes
  <2>4. WaitersCounted
    BY <1>1, FS_EmptySet DEF WaitersCounted
  <2>5. QED
    BY <2>1, <2>2, <2>3, <2>4 DEF TypeOK
<1>3. LockInv /\ PlaceInv /\ CloseInv /\ NoUseAfterClose
  BY DEF LockInv, HoldsLock, PlaceInv, CloseInv, Closing, NoUseAfterClose
<1>4. NoneSleepsThroughSet
  BY <1>1 DEF NoneSleepsThroughSet
<1>5. QED
  BY <1>2, <1>3, <1>4 DEF IInv
-----------------------------------------------------------------------------
\* The call of a thread that holds the mutex is decided.
LEMMA DecideType ==
  ASSUME TypeOK, NEW t \in Threads, NEW result \in Outcomes, Decide(t, result),
         value' \in BOOLEAN, nwaiters' \in 0..MaxWaiters, WaitersCounted'
  PROVE  TypeOK'
<1>1. /\ lock' \in Threads \cup {NoThread}
      /\ pc' \in [Threads -> Places]
      /\ outcome' \in [Threads -> Outcomes]
      /\ op' \in [Threads -> Kinds]
      /\ calls' \in 0..MaxCalls
  BY DEF TypeOK, Decide, Places
<1>2. expired' \in [Threads -> BOOLEAN] /\ freed' \in BOOLEAN /\ mreset' \in BOOLEAN
  BY Zenon DEF TypeOK, Decide
<1>3. QED
  BY <1>1, <1>2 DEF TypeOK

\* What every critical section that ends with Decide leaves of the places, the
\* mutex and the contract of CloseEvent.
LEMMA DecideInv ==
  ASSUME IInv, NEW t \in Threads, NEW result, AtTest(t), Decide(t, result)
  PROVE  /\ LockInv' /\ PlaceInv' /\ CloseInv' /\ NoUseAfterClose'
         /\ Waiters' = Waiters \ {t}
         /\ Asleep' = Asleep
<1> USE DEF IInv, TypeOK
<1>1. LockInv'
  BY EventConstants DEF LockInv, HoldsLock, Decide, AtTest
<1>2. PlaceInv'
  BY DEF PlaceInv, Decide, AtTest
<1>3. CloseInv'
  BY EventConstants DEF CloseInv, Closing, Decide, AtTest, PlaceInv
<1>4. NoUseAfterClose'
  BY DEF NoUseAfterClose, Decide, AtTest
<1>5. Waiters' = Waiters \ {t} /\ Asleep' = Asleep
  BY DEF Waiters, Asleep, Decide, AtTest
<1>6. QED
  BY <1>1, <1>2, <1>3, <1>4, <1>5

LEMMA InvBegin ==
  ASSUME IInv, NEW t \in Threads, NEW kind \in Kinds, Begin(t, kind)
  PROVE  IInv'
<1> USE DEF IInv
<1>1. Waiters' = Waiters /\ Asleep' = Asleep
  BY DEF TypeOK, Waiters, Asleep, Begin
<1>2. WaitersCounted' /\ NoneSleepsThroughSet'
  BY <1>1 DEF TypeOK, WaitersCounted, NoneSleepsThroughSet, Begin
<1>3. TypeOK'
  <2>1. calls' \in 0..MaxCalls
    BY EventConstants DEF TypeOK, Begin
  <2>2. /\ value' \in BOOLEAN /\ mreset' \in BOOLEAN /\ freed' \in BOOLEAN
        /\ expired' \in [Threads -> BOOLEAN]
    BY Zenon DEF TypeOK, Begin
  <2>3. QED
    BY <1>2, <2>1, <2>2 DEF TypeOK, Begin, Places
<1>4. LockInv' /\ PlaceInv' /\ NoUseAfterClose'
  BY DEF TypeOK, LockInv, HoldsLock, PlaceInv, NoUseAfterClose, Begin, MayBegin
<1>5. CloseInv'
  BY EventConstants DEF TypeOK, PlaceInv, CloseInv, Closing, Begin, MayBegin
<1>6. QED
  BY <1>2, <1>3, <1>4, <1>5

Decided(t) ==
  \/ Pass(t) \/ PassRefused(t) \/ PollFails(t) \/ Expire(t) \/ Reset(t) \/ CloseRefused(t)

\* The critical sections that end a wait, a poll or a reset, or refuse a close.
LEMMA InvDecided ==
  ASSUME IInv, NEW t \in Threads, Decided(t)
  PROVE  IInv'
<1> USE DEF IInv
<1>1. PICK result \in Outcomes : AtTest(t) /\ Decide(t, result)
  BY DEF Decided, Pass, PassRefused, PollFails, Expire, Reset, CloseRefused, Outcomes
<1>2. /\ LockInv' /\ PlaceInv' /\ CloseInv' /\ NoUseAfterClose'
      /\ Waiters' = Waiters \ {t}
      /\ Asleep' = Asleep
  BY <1>1, DecideInv
<1>3. nwaiters' = WaitersSeenBy(t)
  <2>1. CASE Pass(t) \/ PassRefused(t) \/ Expire(t)
    BY <2>1 DEF Pass, PassRefused, Expire
  <2>2. CASE PollFails(t) \/ Reset(t) \/ CloseRefused(t)
    <3>1. pc[t] # "waking"
      BY <2>2 DEF PollFails, Reset, CloseRefused, PlaceInv, WaitKinds
    <3>2. QED
      BY <2>2, <3>1 DEF PollFails, Reset, CloseRefused, WaitersSeenBy
  <2>3. QED
    BY <2>1, <2>2 DEF Decided
<1>4. nwaiters' = Cardinality(Waiters') /\ nwaiters' \in 0..MaxWaiters
  <2>1. nwaiters' = Cardinality(Waiters') /\ nwaiters' \in Nat
    BY <1>1, <1>2, <1>3, WaiterLeaves DEF AtTest
  <2>2. nwaiters' <= nwaiters
    BY <1>3 DEF WaitersSeenBy, TypeOK
  <2>3. QED
    BY <2>1, <2>2, EventConstants DEF TypeOK
<1>5. value' \in BOOLEAN /\ (value' => value)
  <2>1. CASE Pass(t)
    BY <2>1, Zenon DEF TypeOK, Pass, LeftByWait
  <2>2. CASE Reset(t)
    BY <2>2, Zenon DEF Reset
  <2>3. CASE PassRefused(t) \/ PollFails(t) \/ Expire(t) \/ CloseRefused(t)
    <3>1. value' = value
      BY <2>3 DEF PassRefused, PollFails, Expire, CloseRefused
    <3>2. QED
      BY <3>1, Zenon DEF TypeOK
  <2>4. QED
    BY <2>1, <2>2, <2>3 DEF Decided
<1>6. TypeOK'
  BY <1>1, <1>4, <1>5, DecideType DEF WaitersCounted
<1>7. NoneSleepsThroughSet'
  BY <1>2, <1>5 DEF NoneSleepsThroughSet
<1>8. QED
  BY <1>2, <1>6, <1>7

LEMMA InvSleep ==
  ASSUME IInv, NEW t \in Threads, Sleep(t)
  PROVE  IInv'
<1> USE DEF IInv
<1>1. Waiters' = Waiters \cup {t}
  BY DEF TypeOK, Waiters, Sleep
<1>2. nwaiters' = Cardinality(Waiters') /\ nwaiters' \in 0..MaxWaiters
  <2>1. nwaiters' = Cardinality(Waiters') /\ nwaiters' \in Nat
    BY <1>1, WaiterSleeps DEF Sleep, AtTest
  <2>2. WaitersSeenBy(t) < MaxWaiters /\ WaitersSeenBy(t) \in Int
    BY DEF Sleep, WaitersSeenBy, TypeOK
  <2>3. QED
    BY <2>1, <2>2, EventConstants DEF Sleep
<1>3. TypeOK'
  <2>1. /\ value' \in BOOLEAN /\ mreset' \in BOOLEAN /\ freed' \in BOOLEAN
        /\ expired' \in [Threads -> BOOLEAN]
    BY Zenon DEF TypeOK, Sleep
  <2>2. QED
    BY <1>2, <2>1 DEF TypeOK, WaitersCounted, Sleep, Places
<1>4. LockInv' /\ PlaceInv' /\ CloseInv' /\ NoUseAfterClose'
  BY EventConstants DEF TypeOK, LockInv, HoldsLock, PlaceInv, CloseInv, Closing,
                        NoUseAfterClose, Sleep, AtTest
<1>5. NoneSleepsThroughSet'
  BY DEF NoneSleepsThroughSet, Sleep
<1>6. QED
  BY <1>3, <1>4, <1>5

LEMMA InvSet ==
  ASSUME IInv, NEW t \in Threads, Set(t)
  PROVE  IInv'
<1> USE DEF IInv
<1>1. pc[t] = "locking" /\ lock = NoThread
  BY DEF Set, AtTest, PlaceInv, WaitKinds
<1>2. \A u \in Threads : pc'[u] = IF u = t THEN "unlocking"
                                  ELSE IF u \in WokenBySet THEN "waking" ELSE pc[u]
  BY DEF Set
<1>3. WokenBySet = Asleep
  <2>1. nwaiters = 0 => Asleep = {}
    BY NobodyWaits DEF Waiters, Asleep
  <2>2. QED
    BY <2>1 DEF WokenBySet, TypeOK
<1>4. Asleep' = {}
  BY <1>2, <1>3 DEF Asleep
<1>5. Waiters' = Waiters
  BY <1>1, <1>2, <1>3 DEF Asleep, Waiters
<1>6. TypeOK'
  <2>1. /\ value' \in BOOLEAN /\ mreset' \in BOOLEAN /\ freed' \in BOOLEAN
        /\ expired' \in [Threads -> BOOLEAN]
    BY Zenon DEF TypeOK, Set
  <2>2. pc' \in [Threads -> Places] /\ outcome' \in [Threads -> Outcomes]
    BY DEF TypeOK, Set, Places, Outcomes
  <2>3. WaitersCounted'
    BY <1>5 DEF TypeOK, WaitersCounted, Set
  <2>4. QED
    BY <2>1, <2>2, <2>3 DEF TypeOK, Set
<1>7. LockInv' /\ PlaceInv' /\ NoUseAfterClose'
  BY <1>1, <1>2, <1>3, EventConstants
     DEF TypeOK, LockInv, HoldsLock, PlaceInv, NoUseAfterClose, Set, Asleep
<1>8. CloseInv'
  BY <1>1, <1>2, <1>3, EventConstants
     DEF CloseInv, Closing, Set, Asleep, LockInv, HoldsLock
<1>9. NoneSleepsThroughSet'
  BY <1>4 DEF NoneSleepsThroughSet
<1>10. QED
  BY <1>6, <1>7, <1>8, <1>9

LEMMA InvClose ==
  ASSUME IInv, NEW t \in Threads, CloseChecks(t) \/ Unlock(t) \/ Free(t)
  PROVE  IInv'
<1> USE DEF IInv
<1>1. Waiters' = Waiters /\ Asleep' = Asleep
  <2>1. CASE CloseChecks(t)
    BY <2>1 DEF TypeOK, PlaceInv, WaitKinds, Waiters, Asleep, CloseChecks, AtTest
  <2>2. CASE Unlock(t) \/ Free(t)
    BY <2>2 DEF TypeOK, Waiters, Asleep, Unlock, Free
  <2>3. QED
    BY <2>1, <2>2
<1>2. WaitersCounted' /\ NoneSleepsThroughSet'
  BY <1>1 DEF TypeOK, WaitersCounted, NoneSleepsThroughSet, CloseChecks, Unlock, Free
<1>3. TypeOK'
  <2>1. freed' \in BOOLEAN
    <3>1. CASE CloseChecks(t) \/ Unlock(t)
      BY <3>1, Zenon DEF TypeOK, CloseChecks, Unlock
    <3>2. CASE Free(t)
      BY <3>2, Zenon DEF Free
    <3>3. QED
      BY <3>1, <3>2
  <2>2. expired' \in [Threads -> BOOLEAN]
    BY Zenon DEF TypeOK, CloseChecks, Unlock, Free
  <2>3. value' \in BOOLEAN /\ mreset' \in BOOLEAN
    BY Zenon DEF TypeOK, CloseChecks, Unlock, Free
  <2>4. QED
    BY <1>2, <2>1, <2>2, <2>3 DEF TypeOK, CloseChecks, Unlock, Free, Places, Outcomes
<1>4. CASE CloseChecks(t)
  <2>1. t = Owner /\ pc[t] = "locking"
    BY <1>4 DEF CloseChecks, AtTest, PlaceInv, WaitKinds
  <2>2. Waiters = {}
    BY <1>4, NobodyWaits DEF CloseChecks
  <2>3. \A u \in Threads \ {Owner} : pc[u] = "idle"
    <3> TAKE u \in Threads \ {Owner}
    <3>1. pc[u] \notin {"asleep", "waking"}
      BY <2>2 DEF Waiters
    <3>2. pc[u] \notin {"unlocking", "checked"}
      BY <1>4, EventConstants DEF LockInv, HoldsLock, CloseChecks, AtTest
    <3>3. pc[u] # "locking"
      BY <1>4, <2>1 DEF CloseInv, Closing, CloseChecks
    <3>4. pc[u] # "closing"
      BY DEF PlaceInv
    <3>5. QED
      BY <3>1, <3>2, <3>3, <3>4 DEF TypeOK, Places
  <2>4. QED
    BY <1>2, <1>3, <1>4, <2>1, <2>3, EventConstants
       DEF TypeOK, LockInv, HoldsLock, PlaceInv, CloseInv, Closing, NoUseAfterClose,
           CloseChecks, AtTest
<1>5. CASE Unlock(t)
  BY <1>2, <1>3, <1>5, EventConstants
     DEF TypeOK, LockInv, HoldsLock, PlaceInv, CloseInv, Closing, NoUseAfterClose, Unlock
<1>6. CASE Free(t)
  <2>1. t = Owner
    BY <1>6 DEF Free, PlaceInv
  <2>2. QED
    BY <1>2, <1>3, <1>6, <2>1, EventConstants
       DEF TypeOK, LockInv, HoldsLock, PlaceInv, CloseInv, Closing, NoUseAfterClose, Free
<1>7. QED
  BY <1>4, <1>5, <1>6

LEMMA InvWake ==
  ASSUME IInv, NEW t \in Threads, NEW timeout \in BOOLEAN, Wake(t, timeout)
  PROVE  IInv'
<1> USE DEF IInv
<1>1. Waiters' = Waiters /\ Asleep' = Asleep \ {t}
  BY DEF TypeOK, Waiters, Asleep, Wake
<1>2. WaitersCounted' /\ NoneSleepsThroughSet'
  BY <1>1 DEF TypeOK, WaitersCounted, NoneSleepsThroughSet, Wake
<1>3. TypeOK'
  <2>1. /\ value' \in BOOLEAN /\ mreset' \in BOOLEAN /\ freed' \in BOOLEAN
        /\ expired' \in [Threads -> BOOLEAN]
    BY Zenon DEF TypeOK, Wake
  <2>2. QED
    BY <1>2, <2>1 DEF TypeOK, Wake, Places
<1>4. LockInv' /\ CloseInv' /\ NoUseAfterClose'
  BY DEF TypeOK, LockInv, HoldsLock, CloseInv, Closing, NoUseAfterClose, Wake
<1>5. PlaceInv'
  BY DEF TypeOK, PlaceInv, WaitKinds, Wake
<1>6. QED
  BY <1>2, <1>3, <1>4, <1>5

LEMMA NextSplit ==
  Next => \E t \in Threads :
            \/ \E kind \in Kinds : Begin(t, kind)
            \/ Decided(t) \/ Sleep(t) \/ Set(t)
            \/ CloseChecks(t) \/ Unlock(t) \/ Free(t)
            \/ \E timeout \in BOOLEAN : Wake(t, timeout)
BY DEF Next, Step, Decided

LEMMA InvNext == IInv /\ [Next]_vars => IInv'
<1> SUFFICES ASSUME IInv, [Next]_vars PROVE IInv'
  OBVIOUS
<1>1. CASE UNCHANGED vars
  BY <1>1 DEF vars, IInv, TypeOK, LockInv, HoldsLock, PlaceInv, CloseInv, Closing,
              WaitersCounted, NoneSleepsThroughSet, NoUseAfterClose, Waiters, Asleep
<1>2. CASE Next
  BY <1>2, NextSplit, InvBegin, InvDecided, InvSleep, InvSet, InvClose, InvWake
<1>3. QED
  BY <1>1, <1>2
-----------------------------------------------------------------------------
\* The inductive invariant of the event of xpevent.c.
THEOREM Invariance == Spec => []IInv
BY InvInit, InvNext, PTL DEF Spec

\* nwaiters is exact on every path through WaitForEvent and never overflows.
THEOREM TypeCorrect == Spec => []TypeOK
<1>1. IInv => TypeOK
  BY DEF IInv
<1>2. QED
  BY <1>1, Invariance, PTL

\* Nobody sleeps in WaitForEvent while the event is set.
THEOREM SetWakesAll == Spec => []NoneSleepsThroughSet
<1>1. IInv => NoneSleepsThroughSet
  BY DEF IInv
<1>2. QED
  BY <1>1, Invariance, PTL

\* No call is inside an event that CloseEvent has freed.
THEOREM ClosedUnused == Spec => []NoUseAfterClose
<1>1. IInv => NoUseAfterClose
  BY DEF IInv
<1>2. QED
  BY <1>1, Invariance, PTL
-----------------------------------------------------------------------------
\* The refinement: the critical section that decides a call is its one atomic
\* step; everything else is a call, a return or a stutter.
AbsStep == Abs!Next \/ UNCHANGED <<freed, mreset, value, Pending, outcome>>

\* A critical section that decides the call of t changes no other thread's call.
LEMMA PendingDecided ==
  ASSUME IInv, NEW t \in Threads, NEW result, AtTest(t), Decide(t, result)
  PROVE  /\ Pending[t] = op[t]
         /\ ~freed
         /\ Abs!Effect(t, result)
<1>1. Pending[t] = op[t]
  BY DEF Pending, AtTest
<1>2. Pending' = [Pending EXCEPT ![t] = "returning"]
  BY DEF IInv, TypeOK, Pending, Decide
<1>3. ~freed
  BY DEF IInv, NoUseAfterClose, AtTest
<1>4. QED
  BY <1>1, <1>2, <1>3 DEF Abs!Effect, Decide

\* Event counts as XpEvent does.
LEMMA SameCardinality == \A S : Abs!Cardinality(S) = Cardinality(S)
BY DEF Cardinality, Abs!Cardinality

\* A thread inside the wait has a wait pending.
LEMMA PendingWaiters ==
  ASSUME IInv
  PROVE  \A u \in Waiters : Pending[u] \in {"wait", "timedwait"}
BY DEF IInv, Waiters, Pending, PlaceInv, WaitKinds

LEMMA RefineBegin ==
  ASSUME IInv, NEW t \in Threads, NEW kind \in Kinds, Begin(t, kind)
  PROVE  AbsStep
<1>1. Pending[t] = "none"
  BY DEF Pending, Begin
<1>2. Pending' = [Pending EXCEPT ![t] = kind]
  BY DEF IInv, TypeOK, Pending, Begin
<1>3. Abs!Call(t, kind)
  BY <1>1, <1>2 DEF Abs!Call, Begin
<1>4. kind \in Abs!Kinds
  BY DEF Kinds, WaitKinds, Abs!Kinds
<1>5. QED
  BY <1>3, <1>4 DEF AbsStep, Abs!Next

\* A wait that ends, because the event is set, the time is up or too many wait.
LEMMA RefineWait ==
  ASSUME IInv, NEW t \in Threads, Pass(t) \/ PassRefused(t) \/ PollFails(t) \/ Expire(t)
  PROVE  AbsStep
<1> USE DEF IInv
<1>1. CASE Pass(t)
  <2>1. AtTest(t) /\ Decide(t, "ok") /\ op[t] \in WaitKinds \cup {"poll"} /\ value
    BY <1>1 DEF Pass
  <2>2. value' = mreset
    BY <1>1 DEF Pass, LeftByWait
  <2>3. Pending[t] = op[t] /\ Abs!Effect(t, "ok")
    BY <2>1, PendingDecided
  <2>4. Abs!Pass(t)
    BY <2>1, <2>2, <2>3 DEF WaitKinds, Abs!Pass
  <2>5. QED
    BY <2>4 DEF AbsStep, Abs!Next
<1>2. CASE PassRefused(t)
  <2>1. AtTest(t) /\ Decide(t, "overflow") /\ op[t] \in WaitKinds \cup {"poll"}
        /\ WaitersSeenBy(t) = MaxWaiters
    BY <1>2 DEF PassRefused
  <2>2. ~value /\ value' = value
    BY <1>2 DEF PassRefused
  <2>3. Pending[t] = op[t] /\ Abs!Effect(t, "overflow")
    BY <2>1, PendingDecided
  <2> DEFINE Others == {u \in Threads \ {t} : Pending[u] \in {"wait", "timedwait"}}
  <2>4. Cardinality(Waiters \ {t}) = MaxWaiters
    <3>1. Waiters' = Waiters \ {t}
      BY <2>1, DecideInv
    <3>2. pc[t] \in {"locking", "waking"}
      BY <2>1 DEF AtTest
    <3>3. WaitersSeenBy(t) = Cardinality(Waiters')
      BY <3>1, <3>2, WaiterLeaves
    <3>4. QED
      BY <2>1, <3>1, <3>3
  <2>5. Waiters \ {t} \subseteq Others
    BY PendingWaiters DEF Waiters
  <2>6. Cardinality(Others) >= MaxWaiters
    <3>1. IsFiniteSet(Others)
      BY EventConstants, FS_Subset
    <3>2. Cardinality(Waiters \ {t}) <= Cardinality(Others)
      BY <2>5, <3>1, FS_Subset
    <3>3. Cardinality(Others) \in Nat
      BY <3>1, FS_CardinalityType
    <3>4. QED
      BY <2>4, <3>2, <3>3, EventConstants
  <2>7. Abs!RefuseWait(t)
    <3>1. Pending[t] \in {"wait", "poll", "timedwait"}
      BY <2>1, <2>3 DEF WaitKinds
    <3>2. QED
      BY <2>2, <2>3, <2>6, <3>1, SameCardinality, Zenon DEF Abs!RefuseWait
  <2>8. QED
    BY <2>7 DEF AbsStep, Abs!Next
<1>3. CASE PollFails(t)
  <2>1. AtTest(t) /\ Decide(t, "timeout") /\ op[t] = "poll"
    BY <1>3 DEF PollFails
  <2>2. ~value /\ value' = value
    BY <1>3 DEF PollFails
  <2>3. Pending[t] = op[t] /\ Abs!Effect(t, "timeout")
    BY <2>1, PendingDecided
  <2>4. Abs!GiveUp(t)
    BY <2>1, <2>2, <2>3 DEF Abs!GiveUp
  <2>5. QED
    BY <2>4 DEF AbsStep, Abs!Next
<1>4. CASE Expire(t)
  <2>1. AtTest(t) /\ Decide(t, "timeout") /\ op[t] = "timedwait"
    BY <1>4 DEF Expire, PlaceInv
  <2>2. value' = value
    BY <1>4 DEF Expire
  <2>3. Pending[t] = op[t] /\ Abs!Effect(t, "timeout")
    BY <2>1, PendingDecided
  <2>4. Abs!GiveUp(t)
    BY <2>1, <2>2, <2>3 DEF Abs!GiveUp
  <2>5. QED
    BY <2>4 DEF AbsStep, Abs!Next
<1>5. QED
  BY <1>1, <1>2, <1>3, <1>4

LEMMA RefineAssign ==
  ASSUME IInv, NEW t \in Threads, Set(t) \/ Reset(t)
  PROVE  AbsStep
<1> USE DEF IInv
<1>1. CASE Set(t)
  <2>1. Pending[t] = "set" /\ ~freed
    BY <1>1 DEF Set, AtTest, Pending, NoUseAfterClose
  <2>2. Pending' = [Pending EXCEPT ![t] = "returning"]
    BY <1>1 DEF TypeOK, Pending, Set, WokenBySet, Asleep
  <2>3. value' = TRUE /\ UNCHANGED <<freed, mreset>> /\ outcome' = [outcome EXCEPT ![t] = "ok"]
    BY <1>1 DEF Set
  <2>4. Abs!Assign(t)
    BY <2>1, <2>2, <2>3 DEF Abs!Assign, Abs!Effect
  <2>5. QED
    BY <2>4 DEF AbsStep, Abs!Next
<1>2. CASE Reset(t)
  <2>1. AtTest(t) /\ Decide(t, "ok") /\ op[t] = "reset"
    BY <1>2 DEF Reset
  <2>2. value' = FALSE
    BY <1>2 DEF Reset
  <2>3. Pending[t] = op[t] /\ Abs!Effect(t, "ok")
    BY <2>1, PendingDecided
  <2>4. Abs!Assign(t)
    BY <2>1, <2>2, <2>3 DEF Abs!Assign
  <2>5. QED
    BY <2>4 DEF AbsStep, Abs!Next
<1>3. QED
  BY <1>1, <1>2

LEMMA RefineClose ==
  ASSUME IInv, NEW t \in Threads, CloseRefused(t) \/ Free(t)
  PROVE  AbsStep
<1> USE DEF IInv
<1>1. CASE CloseRefused(t)
  <2>1. AtTest(t) /\ Decide(t, "busy") /\ op[t] = "close" /\ nwaiters > 0
    BY <1>1 DEF CloseRefused
  <2>2. value' = value
    BY <1>1 DEF CloseRefused
  <2>3. PICK other \in Waiters : TRUE
    BY <2>1, NobodyWaits DEF TypeOK
  <2>4. other \in Threads /\ Pending[other] \in {"wait", "timedwait"}
    BY <2>3, PendingWaiters DEF Waiters
  <2>5. Pending[t] = op[t] /\ Abs!Effect(t, "busy")
    BY <2>1, PendingDecided
  <2>6. Abs!RefuseClose(t)
    BY <2>1, <2>2, <2>4, <2>5 DEF Abs!RefuseClose
  <2>7. QED
    BY <2>6 DEF AbsStep, Abs!Next
<1>2. CASE Free(t)
  <2>1. t = Owner /\ op[t] = "close" /\ Pending[t] = "close"
    BY <1>2 DEF Free, PlaceInv, Pending
  <2>2. \A other \in Threads \ {t} : Pending[other] = "none"
    BY <1>2, <2>1 DEF Free, CloseInv, Pending
  <2>3. Pending' = [Pending EXCEPT ![t] = "none"]
    BY <1>2 DEF TypeOK, Pending, Free
  <2>4. ~freed /\ freed' = TRUE
    BY <1>2 DEF Free, NoUseAfterClose
  <2>5. outcome' = [outcome EXCEPT ![t] = "ok"] /\ UNCHANGED <<mreset, value>>
    BY <1>2 DEF Free
  <2>6. Abs!Close(t)
    BY <2>1, <2>2, <2>3, <2>4, <2>5 DEF Abs!Close
  <2>7. QED
    BY <2>6 DEF AbsStep, Abs!Next
<1>3. QED
  BY <1>1, <1>2

\* Steps that are invisible, or the return of a call.
LEMMA RefineSilent ==
  ASSUME IInv, NEW t \in Threads,
         \/ Sleep(t) \/ CloseChecks(t) \/ Unlock(t)
         \/ \E timeout \in BOOLEAN : Wake(t, timeout)
  PROVE  AbsStep
<1> USE DEF IInv
<1>1. CASE Sleep(t)
  <2>1. Pending' = Pending
    BY <1>1 DEF TypeOK, Pending, Sleep, AtTest
  <2>2. QED
    BY <1>1, <2>1 DEF AbsStep, Sleep
<1>2. CASE CloseChecks(t)
  <2>1. Pending' = Pending
    BY <1>2 DEF TypeOK, Pending, CloseChecks, AtTest
  <2>2. QED
    BY <1>2, <2>1 DEF AbsStep, CloseChecks
<1>3. CASE Unlock(t) /\ pc[t] = "checked"
  <2>1. Pending' = Pending
    BY <1>3 DEF TypeOK, Pending, Unlock
  <2>2. QED
    BY <1>3, <2>1 DEF AbsStep, Unlock
<1>4. CASE Unlock(t) /\ pc[t] = "unlocking"
  <2>1. Pending[t] = "returning"
    BY <1>4 DEF Pending
  <2>2. Pending' = [Pending EXCEPT ![t] = "none"]
    BY <1>4 DEF TypeOK, Pending, Unlock
  <2>3. UNCHANGED <<freed, mreset, value, outcome>>
    BY <1>4 DEF Unlock
  <2>4. Abs!Return(t)
    BY <2>1, <2>2, <2>3 DEF Abs!Return
  <2>5. QED
    BY <2>4 DEF AbsStep, Abs!Next
<1>5. CASE \E timeout \in BOOLEAN : Wake(t, timeout)
  <2>1. Pending' = Pending
    BY <1>5 DEF TypeOK, Pending, Wake
  <2>2. QED
    BY <1>5, <2>1 DEF AbsStep, Wake
<1>6. QED
  BY <1>1, <1>2, <1>3, <1>4, <1>5 DEF Unlock

\* xpevent.c implements the event whose every call is atomic.
THEOREM ImplementsAtomic == Spec => Implements
<1>1. Init => Abs!Init
  <2> SUFFICES ASSUME Init PROVE Abs!Init
    OBVIOUS
  <2>1. ~freed /\ mreset \in BOOLEAN /\ value = InitialState
    BY Zenon DEF Init
  <2>2. Pending = [t \in Threads |-> "none"] /\ outcome = [t \in Threads |-> "ok"]
    BY DEF Init, Pending
  <2>3. QED
    BY <2>1, <2>2, Zenon DEF Abs!Init
<1>2. IInv /\ [Next]_vars => [Abs!Next]_(Abs!vars)
  <2> SUFFICES ASSUME IInv, [Next]_vars PROVE [Abs!Next]_(Abs!vars)
    OBVIOUS
  <2>1. CASE UNCHANGED vars
    BY <2>1 DEF vars, Abs!vars, Pending
  <2>2. CASE Next
    <3>1. AbsStep
      BY <2>2, NextSplit, RefineBegin, RefineWait, RefineAssign, RefineClose, RefineSilent
         DEF Decided
    <3>2. QED
      BY <3>1 DEF AbsStep, Abs!vars
  <2>3. QED
    BY <2>1, <2>2
<1>3. QED
  BY <1>1, <1>2, Invariance, PTL DEF Spec, Implements, Abs!Spec
=============================================================================
