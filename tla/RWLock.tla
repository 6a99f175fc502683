------------------------------- MODULE RWLock -------------------------------
(***************************************************************************)
(* rwlockwrap.c for Windows: a reader/writer lock from two critical        *)
(* sections and two manual-reset events.  lk protects the members and is   *)
(* never held across anything that blocks, so what a thread does under lk  *)
(* is one step; wlk is held by the active writer, and for moments by those *)
(* that try to become one or have waited for one to finish.  Entering and  *)
(* leaving wlk and waiting for an event are steps of their own.  wlk is    *)
(* recursive.                                                              *)
(***************************************************************************)
EXTENDS Integers, FiniteSets

CONSTANTS
  Threads,
  MaxCount,   \* UINT_MAX
  MaxCalls,   \* bound: locking calls each thread makes
  NoThread

ASSUME RWConstants ==
  /\ IsFiniteSet(Threads)
  /\ MaxCount \in Nat \ {0}
  /\ MaxCalls \in Nat
  /\ NoThread \notin Threads

VARIABLES
  wlk, depth,   \* the thread inside wlk, and how often it has entered
  zeror, zerow, \* the events, set or not
  readers, writers, waiting,  \* the counters; waiting is writers_waiting
  writer,       \* the thread that was the latest writer
  rc,           \* rthreads: the count of each thread that has an entry, or -1
  freed,        \* rwlock_destroy has freed the lock
  writing,      \* threads that hold the lock for writing, as they know
  pc, calls

members == <<zeror, zerow, readers, writers, waiting, writer, rc>>
vars == <<wlk, depth, members, freed, writing, pc, calls>>

\* rdlock    idle -> rdwait -> rdenter -> rdtest -> rdleave -> (rdloop | idle)
\* wrlock    idle -> wrenter -> wrtest -> (wrleave -> wrwait -> wrenter)* -> idle
\* trywrlock idle -> trytest -> (leave ->) idle
\* unlock    idle -> (leave ->) idle
Places == {"idle", "rdwait", "rdenter", "rdtest", "rdleave", "rdloop",
           "wrenter", "wrtest", "wrleave", "wrwait", "trytest", "leave"}

Init ==
  /\ wlk = NoThread /\ depth = 0
  /\ zeror = TRUE /\ zerow = TRUE
  /\ readers = 0 /\ writers = 0 /\ waiting = 0
  /\ writer = NoThread
  /\ rc = [t \in Threads |-> -1]
  /\ freed = FALSE
  /\ writing = {}
  /\ pc = [t \in Threads |-> "idle"]
  /\ calls = [t \in Threads |-> 0]

Go(t, from, to) ==
  /\ pc[t] = from
  /\ pc' = [pc EXCEPT ![t] = to]

EnterW(t) ==
  /\ wlk \in {NoThread, t}
  /\ wlk' = t
  /\ depth' = depth + 1

LeaveW(t) ==
  /\ depth' = depth - 1
  /\ wlk' = IF depth = 1 THEN NoThread ELSE wlk

UnchangedW == UNCHANGED <<wlk, depth>>
-----------------------------------------------------------------------------
\* What callers avoid: to ask for what they would have to give up first, or to
\* use a lock that is being destroyed.
Reads(t) == rc[t] > 0

Call(t) ==
  /\ ~freed
  /\ calls[t] < MaxCalls
  /\ calls' = [calls EXCEPT ![t] = @ + 1]

Busy == writers > 0 \/ waiting > 0

\* find_self(..., true)
Count(t) == IF rc[t] = -1 THEN 0 ELSE rc[t]

\* The end of an rdlock or a tryrdlock under lk; an entry without a count goes.
Admit(t) ==
  /\ rc' = [rc EXCEPT ![t] = Count(t) + 1]
  /\ readers' = readers + 1
  /\ zeror' = FALSE
  /\ UNCHANGED <<zerow, writers, waiting, writer>>

Refuse(t) ==
  /\ rc' = [rc EXCEPT ![t] = IF Count(t) = 0 THEN -1 ELSE @]
  /\ UNCHANGED <<zeror, zerow, readers, writers, waiting, writer>>

Full(t) == readers = MaxCount \/ Count(t) = MaxCount

Admission(t) == IF Full(t) THEN Refuse(t) ELSE Admit(t)

\* Mistake: writers that wait do not keep new readers out.
MustWaitForActive(t) == Count(t) = 0 /\ writers > 0

\* The condition of rdlock's loop.
MustWait(t) == Count(t) = 0 /\ Busy

\* rwlock_rdlock up to the wait, or all of it.
RdLock(t) ==
  /\ Call(t)
  /\ t \notin writing
  /\ IF MustWait(t)
     THEN /\ Go(t, "idle", "rdwait")
          /\ rc' = [rc EXCEPT ![t] = Count(t)]
          /\ UNCHANGED <<zeror, zerow, readers, writers, waiting, writer>>
     ELSE /\ Go(t, "idle", "idle")
          /\ Admission(t)
  /\ UnchangedW /\ UNCHANGED <<freed, writing>>

RdWait(t) ==
  /\ Go(t, "rdwait", "rdenter")
  /\ zerow
  /\ UnchangedW /\ UNCHANGED <<members, freed, writing, calls>>

\* "Wait for current writer to release"
RdEnter(t) ==
  /\ Go(t, "rdenter", "rdtest")
  /\ EnterW(t)
  /\ UNCHANGED <<members, freed, writing, calls>>

RdTestBusy(t) ==
  /\ Busy
  /\ Go(t, "rdtest", "rdleave")
  /\ UNCHANGED members

RdTest(t) ==
  /\ \/ RdTestBusy(t)
     \/ /\ ~Busy
        /\ Go(t, "rdtest", "leave")
        /\ Admission(t)
  /\ UnchangedW /\ UNCHANGED <<freed, writing, calls>>

RdLeave(t) ==
  /\ Go(t, "rdleave", "rdloop")
  /\ LeaveW(t)
  /\ UNCHANGED <<members, freed, writing, calls>>

\* The loop condition again: another wait, or out of the loop.
RdLoop(t) ==
  /\ IF MustWait(t)
     THEN Go(t, "rdloop", "rdwait") /\ UNCHANGED members
     ELSE Go(t, "rdloop", "idle") /\ Admission(t)
  /\ UnchangedW /\ UNCHANGED <<freed, writing, calls>>

TryRdLock(t) ==
  /\ Call(t)
  /\ Go(t, "idle", "idle")
  /\ IF ~MustWait(t) /\ ~Full(t) THEN Admit(t) ELSE Refuse(t)
  /\ UnchangedW /\ UNCHANGED <<freed, writing>>
-----------------------------------------------------------------------------
\* rwlock_wrlock says that a writer waits ...
WrLock(t) ==
  /\ Call(t)
  /\ ~Reads(t)
  /\ waiting < MaxCount
  /\ Go(t, "idle", "wrenter")
  /\ waiting' = waiting + 1
  /\ zerow' = FALSE
  /\ UNCHANGED <<zeror, readers, writers, writer, rc>>
  /\ UnchangedW /\ UNCHANGED <<freed, writing>>

WrEnter(t) ==
  /\ Go(t, "wrenter", "wrtest")
  /\ EnterW(t)
  /\ UNCHANGED <<members, freed, writing, calls>>

\* ... lets wlk go while there are readers ...
WrTestReaders(t) ==
  /\ readers > 0
  /\ Go(t, "wrtest", "wrleave")
  /\ UNCHANGED <<members, writing>>

\* ... gives up if it is the writer already ("No recursion") ...
WrTestRecursive(t) ==
  /\ readers = 0
  /\ writers > 0
  /\ Go(t, "wrtest", "leave")
  /\ waiting' = waiting - 1
  /\ UNCHANGED <<zeror, zerow, readers, writers, writer, rc, writing>>

\* ... and else becomes it, and stays inside wlk.
WrTestFree(t) ==
  /\ readers = 0
  /\ writers = 0
  /\ Go(t, "wrtest", "idle")
  /\ waiting' = waiting - 1
  /\ writers' = writers + 1
  /\ zerow' = FALSE
  /\ writer' = t
  /\ writing' = writing \cup {t}
  /\ UNCHANGED <<zeror, readers, rc>>

WrTest(t) ==
  /\ WrTestReaders(t) \/ WrTestRecursive(t) \/ WrTestFree(t)
  /\ UnchangedW /\ UNCHANGED <<freed, calls>>

WrLeave(t) ==
  /\ Go(t, "wrleave", "wrwait")
  /\ LeaveW(t)
  /\ UNCHANGED <<members, freed, writing, calls>>

WrWait(t) ==
  /\ Go(t, "wrwait", "wrenter")
  /\ zeror
  /\ UnchangedW /\ UNCHANGED <<members, freed, writing, calls>>

\* rwlock_trywrlock: a wlk that another thread is in refuses at once.
TryWrLock(t) ==
  /\ Call(t)
  /\ IF wlk \in {NoThread, t}
     THEN Go(t, "idle", "trytest") /\ EnterW(t)
     ELSE Go(t, "idle", "idle") /\ UnchangedW
  /\ UNCHANGED <<members, freed, writing>>

\* Mistake: wlk and no writer are enough, whoever reads.
TryTestWriters(t) ==
  /\ Go(t, "trytest", "idle")
  /\ writers = 0
  /\ writers' = writers + 1
  /\ zerow' = FALSE
  /\ writer' = t
  /\ writing' = writing \cup {t}
  /\ UNCHANGED <<zeror, readers, waiting, rc>>
  /\ UnchangedW /\ UNCHANGED <<freed, calls>>

TryTest(t) ==
  /\ IF readers = 0 /\ writers = 0
     THEN /\ Go(t, "trytest", "idle")
          /\ writers' = writers + 1
          /\ zerow' = FALSE
          /\ writer' = t
          /\ writing' = writing \cup {t}
          /\ UNCHANGED <<zeror, readers, waiting, rc>>
     ELSE /\ Go(t, "trytest", "leave")
          /\ UNCHANGED <<members, writing>>
  /\ UnchangedW /\ UNCHANGED <<freed, calls>>
-----------------------------------------------------------------------------
\* Mistake: the writer that leaves sets the event whoever waits.
UnlockWriterAlwaysSets(t) ==
  /\ writers > 0
  /\ writer = t
  /\ Go(t, "idle", "leave")
  /\ writers' = writers - 1
  /\ zerow' = TRUE
  /\ writing' = writing \ {t}
  /\ UNCHANGED <<zeror, readers, waiting, writer, rc>>

\* rwlock_unlock of the writer, who leaves wlk afterwards ...
UnlockWriter(t) ==
  /\ writers > 0
  /\ writer = t
  /\ Go(t, "idle", "leave")
  /\ writers' = writers - 1
  /\ zerow' = IF waiting = 0 /\ writers = 1 THEN TRUE ELSE zerow
  /\ writing' = writing \ {t}
  /\ UNCHANGED <<zeror, readers, waiting, writer, rc>>

\* Mistake: the reader that leaves sets the event if it was not the last.
UnlockReaderForgets(t) ==
  /\ writers = 0 /\ readers > 0
  /\ rc[t] > 0
  /\ Go(t, "idle", "idle")
  /\ rc' = [rc EXCEPT ![t] = IF @ = 1 THEN -1 ELSE @ - 1]
  /\ readers' = readers - 1
  /\ zeror' = IF readers # 1 THEN TRUE ELSE zeror
  /\ UNCHANGED <<zerow, writers, waiting, writer, writing>>

\* ... and of a reader, whose entry goes with its last lock.
UnlockReader(t) ==
  /\ writers = 0 /\ readers > 0
  /\ rc[t] > 0
  /\ Go(t, "idle", "idle")
  /\ rc' = [rc EXCEPT ![t] = IF @ = 1 THEN -1 ELSE @ - 1]
  /\ readers' = readers - 1
  /\ zeror' = IF readers = 1 THEN TRUE ELSE zeror
  /\ UNCHANGED <<zerow, writers, waiting, writer, writing>>

Unlock(t) ==
  /\ ~freed
  /\ UnlockWriter(t) \/ UnlockReader(t)
  /\ UnchangedW /\ UNCHANGED <<freed, calls>>

\* A call that ends outside wlk.
Leave(t) ==
  /\ Go(t, "leave", "idle")
  /\ LeaveW(t)
  /\ UNCHANGED <<members, freed, writing, calls>>

\* Mistake: rwlock_destroy does not look for readers that wait.
UnusedByHolders == readers = 0 /\ writers = 0 /\ waiting = 0

Unused == readers = 0 /\ writers = 0 /\ waiting = 0 /\ \A t \in Threads : rc[t] = -1

\* Nobody may be in a call that has not shown itself in the members yet, or does
\* not any more: the callers of destroy see to that.
Destroy(t) ==
  /\ ~freed
  /\ Go(t, "idle", "idle")
  /\ \A u \in Threads : pc[u] \notin {"trytest", "leave"}
  /\ Unused
  /\ freed' = TRUE
  /\ UnchangedW /\ UNCHANGED <<members, writing, calls>>
-----------------------------------------------------------------------------
\* What a thread does inside a call.
Step(t) ==
  \/ RdWait(t) \/ RdEnter(t) \/ RdTest(t) \/ RdLeave(t) \/ RdLoop(t)
  \/ WrEnter(t) \/ WrTest(t) \/ WrLeave(t) \/ WrWait(t)
  \/ TryTest(t)
  \/ Leave(t)

Next ==
  \E t \in Threads :
    \/ RdLock(t) \/ TryRdLock(t) \/ WrLock(t) \/ TryWrLock(t)
    \/ Unlock(t) \/ Destroy(t)
    \/ Step(t)

Spec == Init /\ [][Next]_vars

\* Threads run, and who holds the lock unlocks it in the end.
Fairness == \A t \in Threads : WF_vars(Step(t)) /\ WF_vars(Unlock(t))

FairSpec == Spec /\ Fairness
-----------------------------------------------------------------------------
\* The type of the state: no counter passes UINT_MAX or falls below zero, there
\* is at most one writer, and wlk is not left more often than it was entered.
TypeOK ==
  /\ wlk \in Threads \cup {NoThread} /\ depth \in Nat
  /\ zeror \in BOOLEAN /\ zerow \in BOOLEAN
  /\ readers \in 0..MaxCount /\ writers \in 0..1 /\ waiting \in 0..MaxCount
  /\ writer \in Threads \cup {NoThread}
  /\ rc \in [Threads -> -1..MaxCount]
  /\ freed \in BOOLEAN
  /\ writing \subseteq Threads
  /\ pc \in [Threads -> Places]
  /\ calls \in [Threads -> 0..MaxCalls]

\* One writer and no reader, or readers only, whatever is tried, recursive or
\* waited for.
MutualExclusion ==
  \A t \in writing : \A u \in Threads : rc[u] < 1 /\ (u \in writing => u = t)

\* "Event set whenever there are zero readers", "... whenever writers_waiting +
\* writers is zero" (rwlockwrap.c:19, 20), and only then: nobody waits for an
\* event that nobody will set, and no reader runs ahead of a writer.
EventsTellCounters ==
  /\ zeror <=> readers = 0
  /\ zerow <=> writers + waiting = 0

\* Writers come first: a thread that holds nothing does not get the lock for
\* reading while a writer has it or waits for it.
ReadersGiveWay == [][\A t \in Threads : rc[t] < 1 /\ rc'[t] > 0 => ~Busy]_vars

\* A lock that has been destroyed is not in use: nobody is inside a call.
DestroyedUnused == freed => writing = {} /\ \A t \in Threads : pc[t] = "idle" /\ rc[t] < 1

\* Every call returns, if who holds the lock unlocks it and no thread waits for
\* itself: no wakeup is lost between the events and wlk.
EveryCallReturns == \A t \in Threads : pc[t] # "idle" ~> pc[t] = "idle"
=============================================================================
