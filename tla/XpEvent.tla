------------------------------- MODULE XpEvent -------------------------------
(***************************************************************************)
(* xpevent.c: the events of Windows from one mutex and one condition       *)
(* variable.  As in XpSem a critical section is one step, up to the wait   *)
(* inside it, and releasing the mutex is another.                          *)
(***************************************************************************)
EXTENDS Naturals, FiniteSets

CONSTANTS
  Threads,       \* users of the event
  Owner,         \* the one of them that may close it
  InitialState,  \* bInitialState
  MaxWaiters,    \* UINT32_MAX
  MaxCalls,      \* bound: calls the threads make in all
  NoThread

ASSUME EventConstants ==
  /\ IsFiniteSet(Threads)
  /\ Owner \in Threads
  /\ InitialState \in BOOLEAN
  /\ MaxWaiters \in Nat \ {0} /\ MaxCalls \in Nat
  /\ NoThread \notin Threads

VARIABLES
  lock,      \* holder of event->lock, or NoThread
  value, mreset, nwaiters,
  freed,     \* the event has been closed and freed
  pc,        \* where each thread is
  op,        \* the call it is in, or was last in
  expired,   \* pthread_cond_timedwait is about to return ETIMEDOUT to it
  outcome,   \* result of its latest call
  calls      \* calls begun

vars == <<lock, value, mreset, nwaiters, freed, pc, op, expired, outcome, calls>>

\* idle -> locking -> (asleep -> waking)* -> unlocking -> idle, and for the
\* owner of an event without waiters checked -> closing -> idle.
Places == {"idle", "locking", "asleep", "waking", "unlocking", "checked", "closing"}

WaitKinds == {"wait", "timedwait"}
Kinds == WaitKinds \cup {"poll", "set", "reset", "close"}
Outcomes == {"ok", "timeout", "overflow", "busy"}

Asleep == {t \in Threads : pc[t] = "asleep"}
Waiters == {t \in Threads : pc[t] \in {"asleep", "waking"}}

Init ==
  /\ lock = NoThread
  /\ value = InitialState
  /\ mreset \in BOOLEAN
  /\ nwaiters = 0
  /\ freed = FALSE
  /\ pc = [t \in Threads |-> "idle"]
  /\ op = [t \in Threads |-> "set"]
  /\ expired = [t \in Threads |-> FALSE]
  /\ outcome = [t \in Threads |-> "ok"]
  /\ calls = 0
-----------------------------------------------------------------------------
\* What callers of CloseEvent see to: no call begins while the event is being
\* closed, and none is on its way to the mutex when the close begins.
Closing == op[Owner] = "close" /\ pc[Owner] # "idle"

MayBegin(t, kind) ==
  /\ ~freed
  /\ ~Closing
  /\ kind = "close" => t = Owner /\ \A other \in Threads : pc[other] # "locking"

Begin(t, kind) ==
  /\ pc[t] = "idle"
  /\ calls < MaxCalls
  /\ MayBegin(t, kind)
  /\ pc' = [pc EXCEPT ![t] = "locking"]
  /\ op' = [op EXCEPT ![t] = kind]
  /\ calls' = calls + 1
  /\ UNCHANGED <<lock, value, mreset, nwaiters, freed, expired, outcome>>

AtTest(t) == lock = NoThread /\ pc[t] \in {"locking", "waking"}

\* A critical section that ends the call: the thread still holds the mutex.
Decide(t, result) ==
  /\ lock' = t
  /\ pc' = [pc EXCEPT ![t] = "unlocking"]
  /\ outcome' = [outcome EXCEPT ![t] = result]
  /\ expired' = [expired EXCEPT ![t] = FALSE]
  /\ UNCHANGED <<mreset, freed, op, calls>>

WaitersSeenBy(t) == IF pc[t] = "waking" THEN nwaiters - 1 ELSE nwaiters

\* Mistake: a manual-reset event is cleared by a wait, like the others.
ClearedByWait == FALSE

\* What WaitForEvent leaves of a value that it found set.
LeftByWait == mreset

Pass(t) ==
  /\ AtTest(t)
  /\ op[t] \in WaitKinds \cup {"poll"}
  /\ value
  /\ ~expired[t]
  /\ value' = LeftByWait
  /\ nwaiters' = WaitersSeenBy(t)
  /\ Decide(t, "ok")

\* EOVERFLOW: too many wait already.
PassRefused(t) ==
  /\ AtTest(t)
  /\ op[t] \in WaitKinds \cup {"poll"}
  /\ ~value
  /\ ~expired[t]
  /\ WaitersSeenBy(t) = MaxWaiters
  /\ UNCHANGED value
  /\ nwaiters' = WaitersSeenBy(t)
  /\ Decide(t, "overflow")

\* A wait of 0 ms does not wait.
PollFails(t) ==
  /\ AtTest(t)
  /\ op[t] = "poll"
  /\ ~value
  /\ nwaiters < MaxWaiters
  /\ UNCHANGED <<value, nwaiters>>
  /\ Decide(t, "timeout")

\* Mistake: a thread that wakes and waits again is counted again.
SleepCountedTwice(t) ==
  /\ AtTest(t)
  /\ op[t] \in WaitKinds
  /\ ~value
  /\ ~expired[t]
  /\ nwaiters < MaxWaiters
  /\ nwaiters' = nwaiters + 1
  /\ pc' = [pc EXCEPT ![t] = "asleep"]
  /\ UNCHANGED <<lock, value, mreset, freed, op, expired, outcome, calls>>

Sleep(t) ==
  /\ AtTest(t)
  /\ op[t] \in WaitKinds
  /\ ~value
  /\ ~expired[t]
  /\ WaitersSeenBy(t) < MaxWaiters
  /\ nwaiters' = WaitersSeenBy(t) + 1
  /\ pc' = [pc EXCEPT ![t] = "asleep"]
  /\ UNCHANGED <<lock, value, mreset, freed, op, expired, outcome, calls>>

\* Mistake: a wait whose time is up clears a value that has just been set.
ExpireClearing(t) ==
  /\ AtTest(t)
  /\ expired[t]
  /\ value' = (value /\ mreset)
  /\ nwaiters' = WaitersSeenBy(t)
  /\ Decide(t, "timeout")

\* ETIMEDOUT ends the wait whatever the value, which stays.
Expire(t) ==
  /\ AtTest(t)
  /\ expired[t]
  /\ UNCHANGED value
  /\ nwaiters' = WaitersSeenBy(t)
  /\ Decide(t, "timeout")

\* Mistake: pthread_cond_signal wakes one waiter.
WokenBySignal == IF Asleep = {} THEN {} ELSE {CHOOSE u \in Asleep : TRUE}

\* pthread_cond_broadcast, skipped when nobody waits.
WokenBySet == IF nwaiters > 0 THEN Asleep ELSE {}

Set(t) ==
  /\ AtTest(t)
  /\ op[t] = "set"
  /\ value' = TRUE
  /\ lock' = t
  /\ pc' = [u \in Threads |-> IF u = t THEN "unlocking"
                              ELSE IF u \in WokenBySet THEN "waking" ELSE pc[u]]
  /\ outcome' = [outcome EXCEPT ![t] = "ok"]
  /\ UNCHANGED <<mreset, nwaiters, freed, op, expired, calls>>

Reset(t) ==
  /\ AtTest(t)
  /\ op[t] = "reset"
  /\ value' = FALSE
  /\ UNCHANGED nwaiters
  /\ Decide(t, "ok")

CloseRefused(t) ==
  /\ AtTest(t)
  /\ op[t] = "close"
  /\ nwaiters > 0
  /\ UNCHANGED <<value, nwaiters>>
  /\ Decide(t, "busy")

\* Mistake: CloseEvent does not look at nwaiters.
CloseUnchecked(t) ==
  /\ AtTest(t)
  /\ op[t] = "close"
  /\ lock' = t
  /\ pc' = [pc EXCEPT ![t] = "checked"]
  /\ UNCHANGED <<value, mreset, nwaiters, freed, op, expired, outcome, calls>>

CloseChecks(t) ==
  /\ AtTest(t)
  /\ op[t] = "close"
  /\ nwaiters = 0
  /\ lock' = t
  /\ pc' = [pc EXCEPT ![t] = "checked"]
  /\ UNCHANGED <<value, mreset, nwaiters, freed, op, expired, outcome, calls>>

Unlock(t) ==
  /\ pc[t] \in {"unlocking", "checked"}
  /\ lock' = NoThread
  /\ pc' = [pc EXCEPT ![t] = IF @ = "checked" THEN "closing" ELSE "idle"]
  /\ UNCHANGED <<value, mreset, nwaiters, freed, op, expired, outcome, calls>>

\* The condition variable and the mutex are destroyed.  That fails (and leaves the
\* event behind) when they are in use, which the callers of CloseEvent avoid.
Free(t) ==
  /\ pc[t] = "closing"
  /\ lock = NoThread
  /\ Asleep = {}
  /\ freed' = TRUE
  /\ pc' = [pc EXCEPT ![t] = "idle"]
  /\ outcome' = [outcome EXCEPT ![t] = "ok"]
  /\ UNCHANGED <<lock, value, mreset, nwaiters, op, expired, calls>>

\* A spurious wakeup, or the time of a timed wait is up.
Wake(t, timeout) ==
  /\ pc[t] = "asleep"
  /\ timeout => op[t] = "timedwait"
  /\ pc' = [pc EXCEPT ![t] = "waking"]
  /\ expired' = [expired EXCEPT ![t] = timeout]
  /\ UNCHANGED <<lock, value, mreset, nwaiters, freed, op, outcome, calls>>

\* What a thread does inside a call.
Step(t) ==
  \/ Pass(t) \/ PassRefused(t) \/ PollFails(t) \/ Sleep(t) \/ Expire(t)
  \/ Set(t) \/ Reset(t)
  \/ CloseRefused(t) \/ CloseChecks(t) \/ Free(t)
  \/ Unlock(t)

Next ==
  \E t \in Threads :
    \/ \E kind \in Kinds : Begin(t, kind)
    \/ Step(t)
    \/ \E timeout \in BOOLEAN : Wake(t, timeout)

Spec == Init /\ [][Next]_vars

\* A thread that waits for the mutex again and again gets it in the end, and
\* the time of a timed wait passes.
Fairness ==
  \A t \in Threads : SF_vars(Step(t)) /\ WF_vars(Wake(t, TRUE))

FairSpec == Spec /\ Fairness
-----------------------------------------------------------------------------
\* nwaiters counts the threads inside the wait.
WaitersCounted == nwaiters = Cardinality(Waiters)

\* The type of the state: nwaiters is exact and stays below UINT32_MAX, although
\* each thread adds and removes itself in different critical sections.
TypeOK ==
  /\ lock \in Threads \cup {NoThread}
  /\ value \in BOOLEAN /\ mreset \in BOOLEAN /\ freed \in BOOLEAN
  /\ nwaiters \in 0..MaxWaiters
  /\ WaitersCounted
  /\ pc \in [Threads -> Places]
  /\ op \in [Threads -> Kinds]
  /\ expired \in [Threads -> BOOLEAN]
  /\ outcome \in [Threads -> Outcomes]
  /\ calls \in 0..MaxCalls

\* While the event is set nobody sleeps through it, also when several threads
\* wait for a manual-reset event (the broadcast at xpevent.c:105).
NoneSleepsThroughSet == value => Asleep = {}

\* When the owner has freed the event nobody is inside a call on it.
NoUseAfterClose == freed => \A t \in Threads : pc[t] = "idle"

\* A thread that waits for an event that stays set returns.
SetReleases ==
  \A t \in Threads : (t \in Waiters /\ value) ~> (t \notin Waiters \/ ~value)

\* The strengthening that makes the safety properties inductive: the mutex is
\* held on the way out, and a place belongs to a call.
HoldsLock(t) == pc[t] \in {"unlocking", "checked"}

LockInv == \A t \in Threads : HoldsLock(t) <=> lock = t

PlaceInv ==
  \A t \in Threads :
    /\ pc[t] \in {"asleep", "waking"} => op[t] \in WaitKinds
    /\ expired[t] => pc[t] = "waking" /\ op[t] = "timedwait"
    /\ pc[t] \in {"checked", "closing"} => op[t] = "close"
    /\ op[t] = "close" /\ pc[t] # "idle" => t = Owner

\* From the check of CloseEvent on every other thread is out.
CloseInv ==
  /\ Closing => \A t \in Threads \ {Owner} : pc[t] # "locking"
  /\ pc[Owner] \in {"checked", "closing"} => \A t \in Threads \ {Owner} : pc[t] = "idle"

IInv ==
  /\ TypeOK /\ LockInv /\ PlaceInv /\ CloseInv
  /\ NoneSleepsThroughSet /\ NoUseAfterClose
-----------------------------------------------------------------------------
Pending ==
  [t \in Threads |-> IF pc[t] = "idle" THEN "none"
                    ELSE IF pc[t] = "unlocking" THEN "returning"
                    ELSE op[t]]

Abs == INSTANCE Event
  WITH alive <- ~freed, manual <- mreset, value <- value, pending <- Pending, outcome <- outcome

\* xpevent.c implements the atomic event: an auto-reset event lets one wait pass
\* for each time it is set, a timeout consumes nothing, a refused close changes
\* nothing.
Implements == Abs!Spec
=============================================================================
