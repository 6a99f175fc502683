-------------------------------- MODULE XpSem --------------------------------
(***************************************************************************)
(* xpsem.c: a POSIX-style semaphore built from one mutex and one condition *)
(* variable.  Between two acquisitions of the mutex a thread's code runs   *)
(* alone, so each action below is one critical section (or the part of one *)
(* up to a wait); releasing the mutex is a step of its own, because the    *)
(* thread still touches the object there.  A woken waiter has to take the  *)
(* mutex again and test the count again.                                   *)
(***************************************************************************)
EXTENDS Naturals, FiniteSets

CONSTANTS
  Threads,       \* callers of the semaphore
  Owner,         \* the one of them that may destroy it
  ValueMax,      \* XP_SEM_VALUE_MAX
  InitialValue,  \* the value given to xp_sem_init
  MaxCalls,      \* bound: calls each thread makes
  NoThread

ASSUME SemConstants ==
  /\ IsFiniteSet(Threads)
  /\ Owner \in Threads
  /\ ValueMax \in Nat \ {0}
  /\ InitialValue \in 0..ValueMax
  /\ MaxCalls \in Nat
  /\ NoThread \notin Threads

VARIABLES
  lock,      \* holder of sem->lock, or NoThread
  count,     \* sem->count
  nwaiters,  \* sem->nwaiters
  freed,     \* the object has been destroyed and freed
  pc,        \* where each thread is
  op,        \* the call it is in, or was last in
  expired,   \* pthread_cond_timedwait is about to return ETIMEDOUT to it
  outcome,   \* result of its latest call
  calls      \* calls it has begun

vars == <<lock, count, nwaiters, freed, pc, op, expired, outcome, calls>>

\* idle -> locking -> (asleep -> waking)* -> unlocking -> idle, and for the
\* owner of a semaphore without waiters checked -> destroying -> idle.
Places == {"idle", "locking", "asleep", "waking", "unlocking", "checked", "destroying"}

WaitKinds == {"wait", "timedwait"}
Kinds == WaitKinds \cup {"post", "trywait", "destroy"}

Outcomes == {"ok", "overflow", "again", "timeout", "busy"}

\* Threads inside pthread_cond_wait: not yet woken, or woken but without the
\* mutex.  Each has incremented nwaiters and not decremented it.
Asleep == {t \in Threads : pc[t] = "asleep"}
Waiters == {t \in Threads : pc[t] \in {"asleep", "waking"}}

Init ==
  /\ lock = NoThread
  /\ count = InitialValue
  /\ nwaiters = 0
  /\ freed = FALSE
  /\ pc = [t \in Threads |-> "idle"]
  /\ op = [t \in Threads |-> "post"]
  /\ expired = [t \in Threads |-> FALSE]
  /\ outcome = [t \in Threads |-> "ok"]
  /\ calls = [t \in Threads |-> 0]
-----------------------------------------------------------------------------
\* What the documentation of sem_destroy asks of its callers: no call begins
\* while the owner destroys the semaphore, and none that has begun is still on
\* its way to the mutex when the owner starts.  Blocked waiters, and calls that
\* have taken effect but not returned, are allowed.
Destroying == op[Owner] = "destroy" /\ pc[Owner] # "idle"

MayBegin(t, kind) ==
  /\ ~freed
  /\ ~Destroying
  /\ kind = "destroy" => t = Owner /\ \A other \in Threads : pc[other] # "locking"

\* XP_SEM_CHECK_VALIDITY passed; the thread goes for the mutex.
Begin(t, kind) ==
  /\ pc[t] = "idle"
  /\ calls[t] < MaxCalls
  /\ MayBegin(t, kind)
  /\ pc' = [pc EXCEPT ![t] = "locking"]
  /\ op' = [op EXCEPT ![t] = kind]
  /\ calls' = [calls EXCEPT ![t] = @ + 1]
  /\ UNCHANGED <<lock, count, nwaiters, freed, expired, outcome>>

\* A critical section that ends the call: the thread still holds the mutex.
Decide(t, result) ==
  /\ lock' = t
  /\ pc' = [pc EXCEPT ![t] = "unlocking"]
  /\ outcome' = [outcome EXCEPT ![t] = result]
  /\ expired' = [expired EXCEPT ![t] = FALSE]
  /\ UNCHANGED <<freed, op, calls>>

\* nwaiters as the loop of a wait sees it: a woken thread first takes itself off.
WaitersSeenBy(t) == IF pc[t] = "waking" THEN nwaiters - 1 ELSE nwaiters

AtTest(t) == lock = NoThread /\ pc[t] \in {"locking", "waking"}

Take(t) ==
  /\ AtTest(t)
  /\ op[t] \in WaitKinds \cup {"trywait"}
  /\ count > 0
  /\ ~expired[t]
  /\ count' = count - 1
  /\ nwaiters' = WaitersSeenBy(t)
  /\ Decide(t, "ok")

\* pthread_cond_wait releases the mutex and sleeps in one step.
Sleep(t) ==
  /\ AtTest(t)
  /\ op[t] \in WaitKinds
  /\ count = 0
  /\ ~expired[t]
  /\ nwaiters' = WaitersSeenBy(t) + 1
  /\ pc' = [pc EXCEPT ![t] = "asleep"]
  /\ UNCHANGED <<lock, count, freed, op, expired, outcome, calls>>

\* Mistake: xp_sem_timedwait decrements the count without testing retval.
ExpireTakingToken(t) ==
  /\ AtTest(t)
  /\ expired[t]
  /\ count > 0
  /\ count' = count - 1
  /\ nwaiters' = WaitersSeenBy(t)
  /\ Decide(t, "timeout")

\* A non-zero result of pthread_cond_timedwait ends the loop whatever the count.
Expire(t) ==
  /\ AtTest(t)
  /\ expired[t]
  /\ UNCHANGED count
  /\ nwaiters' = WaitersSeenBy(t)
  /\ Decide(t, "timeout")

TryFails(t) ==
  /\ AtTest(t)
  /\ op[t] = "trywait"
  /\ count = 0
  /\ UNCHANGED <<count, nwaiters>>
  /\ Decide(t, "again")

\* Mistake: the test before the broadcast is off by one.
WokenByUnlessAlone(t) == IF nwaiters > 1 THEN Asleep ELSE {}

\* pthread_cond_broadcast, skipped when nobody waits.
WokenBy(t) == IF nwaiters > 0 THEN Asleep ELSE {}

PostStores(t) ==
  /\ count < ValueMax
  /\ count' = count + 1
  /\ lock' = t
  /\ pc' = [u \in Threads |-> IF u = t THEN "unlocking"
                              ELSE IF u \in WokenBy(t) THEN "waking" ELSE pc[u]]
  /\ outcome' = [outcome EXCEPT ![t] = "ok"]
  /\ UNCHANGED <<nwaiters, freed, op, expired, calls>>

PostOverflows(t) ==
  /\ count = ValueMax
  /\ UNCHANGED <<count, nwaiters>>
  /\ Decide(t, "overflow")

Post(t) ==
  /\ AtTest(t)
  /\ op[t] = "post"
  /\ PostStores(t) \/ PostOverflows(t)

DestroyRefused(t) ==
  /\ AtTest(t)
  /\ op[t] = "destroy"
  /\ nwaiters > 0
  /\ UNCHANGED <<count, nwaiters>>
  /\ Decide(t, "busy")

\* Mistake: xp_sem_destroy does not look at nwaiters.
DestroyUnchecked(t) ==
  /\ AtTest(t)
  /\ op[t] = "destroy"
  /\ lock' = t
  /\ pc' = [pc EXCEPT ![t] = "checked"]
  /\ UNCHANGED <<count, nwaiters, freed, op, expired, outcome, calls>>

DestroyChecks(t) ==
  /\ AtTest(t)
  /\ op[t] = "destroy"
  /\ nwaiters = 0
  /\ lock' = t
  /\ pc' = [pc EXCEPT ![t] = "checked"]
  /\ UNCHANGED <<count, nwaiters, freed, op, expired, outcome, calls>>

Unlock(t) ==
  /\ pc[t] \in {"unlocking", "checked"}
  /\ lock' = NoThread
  /\ pc' = [pc EXCEPT ![t] = IF @ = "checked" THEN "destroying" ELSE "idle"]
  /\ UNCHANGED <<count, nwaiters, freed, op, expired, outcome, calls>>

\* The mutex and the condition variable refuse to be destroyed (EBUSY, and the
\* loop sleeps and tries again) while one is held and the other waited on.
Free(t) ==
  /\ pc[t] = "destroying"
  /\ lock = NoThread
  /\ Asleep = {}
  /\ freed' = TRUE
  /\ pc' = [pc EXCEPT ![t] = "idle"]
  /\ outcome' = [outcome EXCEPT ![t] = "ok"]
  /\ UNCHANGED <<lock, count, nwaiters, op, expired, calls>>

\* POSIX lets a condition variable wake a thread for no reason, and a timed
\* wait whose time is up wakes by itself.
Wake(t, timeout) ==
  /\ pc[t] = "asleep"
  /\ timeout => op[t] = "timedwait"
  /\ pc' = [pc EXCEPT ![t] = "waking"]
  /\ expired' = [expired EXCEPT ![t] = timeout]
  /\ UNCHANGED <<lock, count, nwaiters, freed, op, outcome, calls>>

Next ==
  \E t \in Threads :
    \/ \E kind \in Kinds : Begin(t, kind)
    \/ Take(t) \/ Sleep(t) \/ Expire(t) \/ TryFails(t)
    \/ Post(t)
    \/ DestroyRefused(t) \/ DestroyChecks(t) \/ Free(t)
    \/ Unlock(t)
    \/ \E timeout \in BOOLEAN : Wake(t, timeout)

Spec == Init /\ [][Next]_vars
-----------------------------------------------------------------------------
\* The type of the state: the count stays between zero and XP_SEM_VALUE_MAX
\* whatever calls race.
TypeOK ==
  /\ lock \in Threads \cup {NoThread}
  /\ count \in 0..ValueMax
  /\ nwaiters \in Nat
  /\ freed \in BOOLEAN
  /\ pc \in [Threads -> Places]
  /\ op \in [Threads -> Kinds]
  /\ expired \in [Threads -> BOOLEAN]
  /\ outcome \in [Threads -> Outcomes]
  /\ calls \in [Threads -> 0..MaxCalls]

\* No lost wakeup: while a token is available nobody sleeps through it; every
\* waiter has at least been woken and will test the count again (the broadcast
\* of xp_sem_post, xpsem.c:233, against the loops of xp_sem_wait and
\* xp_sem_timedwait).
NoLostWakeup == count > 0 => Asleep = {}

\* nwaiters is exact: it counts the threads inside pthread_cond_wait, no more
\* and no less, although each adds and removes itself in different critical
\* sections and timeouts and spurious wakeups come in between.
WaitersCounted == nwaiters = Cardinality(Waiters)

\* Once the owner has freed the semaphore nobody is inside a call on it, not
\* even on the way out of the mutex of a post whose token let the owner go on.
NoUseAfterFree == freed => \A t \in Threads : pc[t] = "idle"

\* The strengthening that makes the properties above inductive.
HoldsLock(t) == pc[t] \in {"unlocking", "checked"}

LockInv == \A t \in Threads : HoldsLock(t) <=> lock = t

PlaceInv ==
  \A t \in Threads :
    /\ pc[t] \in {"asleep", "waking"} => op[t] \in WaitKinds
    /\ expired[t] => pc[t] = "waking" /\ op[t] = "timedwait"
    /\ pc[t] \in {"checked", "destroying"} => op[t] = "destroy"
    /\ op[t] = "destroy" /\ pc[t] # "idle" => t = Owner

\* While a destroy is under way no call is on its way to the mutex; from its
\* check on, every other thread is out.
DestroyInv ==
  /\ Destroying => \A t \in Threads \ {Owner} : pc[t] # "locking"
  /\ pc[Owner] \in {"checked", "destroying"} => \A t \in Threads \ {Owner} : pc[t] = "idle"

IInv ==
  /\ TypeOK /\ LockInv /\ PlaceInv /\ DestroyInv
  /\ WaitersCounted /\ NoLostWakeup /\ NoUseAfterFree
-----------------------------------------------------------------------------
\* A call is pending until the critical section that decides it.
Pending ==
  [t \in Threads |-> IF pc[t] = "idle" THEN "none"
                    ELSE IF pc[t] = "unlocking" THEN "returning"
                    ELSE op[t]]

Abs == INSTANCE Semaphore
  WITH alive <- ~freed, value <- count, pending <- Pending, outcome <- outcome

\* xpsem.c implements the atomic semaphore: a timeout never takes a token, a
\* post is never lost, a refused destroy changes nothing.
Implements == Abs!Spec
=============================================================================
