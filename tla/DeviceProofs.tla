---------------------------- MODULE DeviceProofs ----------------------------
(***************************************************************************)
(* For any threads, back ends and calls, whether or not callers hold the   *)
(* device and whether or not it starts: the device thread runs only while  *)
(* the device it feeds is open.                                            *)
(***************************************************************************)
EXTENDS Device, TLAPS

Alive(f) == feeder[f] # "none"

Places == {"idle", "play", "drain", "reclose", "complete", "stop", "teardown"}

TypeOK ==
  /\ handle_type \in Built \cup {Closed} /\ handle_rc \in Nat
  /\ handle_mutex \in Threads \cup {None}
  /\ device_thread_running \in BOOLEAN /\ device_thread_should_exit \in BOOLEAN
  /\ device_thread_stopped \in Nat
  /\ feeder \in [Feeders -> {"none", "test", "pull", "write", "leave", "post"}]
  /\ fed \in [Feeders -> Built \cup {Closed}]
  /\ pc \in [Threads -> Places]

\* handle_mutex is held from the wait for the streams up to the end.
MutexInv == \A t \in Threads : pc[t] \in {"complete", "stop", "teardown"} <=> handle_mutex = t

\* What is known while there is a device thread: it leaves when it has been told
\* to, and whoever has told it to waits.
FeederInv ==
  \A f \in Feeders : Alive(f) =>
    /\ handle_type \in Push
    /\ device_thread_stopped = 0
    /\ feeder[f] \in {"pull", "write"} => fed[f] = handle_type
    /\ \A g \in Feeders : Alive(g) => g = f
    /\ device_thread_running <=> feeder[f] # "post"
    /\ feeder[f] \in {"leave", "post"} => device_thread_should_exit
    /\ device_thread_should_exit => \E t \in Threads : pc[t] = "stop"

NoFeederInv == device_thread_running => \E f \in Feeders : Alive(f)

CloseInv ==
  \A t \in Threads :
    /\ pc[t] \in {"stop", "teardown"} => handle_rc = 0
    /\ pc[t] = "teardown" => \A f \in Feeders : ~Alive(f)

\* The device as it is between calls, and until a close has dropped the last
\* reference.
OpenInv ==
  \/ \E t \in Threads : pc[t] \in {"stop", "teardown"}
  \/ /\ (handle_type = Closed) <=> (handle_rc = 0)
     /\ handle_type \in Push => \E f \in Feeders : Alive(f)

IInv == TypeOK /\ MutexInv /\ FeederInv /\ NoFeederInv /\ CloseInv /\ OpenInv
-----------------------------------------------------------------------------
LEMMA InvInit == Init => IInv
<1> SUFFICES ASSUME Init PROVE IInv
  OBVIOUS
<1> USE DeviceConstants DEF Init
<1>1. TypeOK
  BY DEF TypeOK, Places
<1>2. MutexInv
  BY DEF MutexInv
<1>3. FeederInv /\ NoFeederInv /\ CloseInv
  BY DEF FeederInv, NoFeederInv, CloseInv, Alive
<1>4. OpenInv
  BY DEF OpenInv, Push, Search
<1>5. QED
  BY <1>1, <1>2, <1>3, <1>4 DEF IInv

\* Of a step that leaves the device, its thread and the mutex as they are, only
\* the places matter at which the mutex is held.
LEMMA InvAside ==
  ASSUME IInv, pc' \in [Threads -> Places],
         \A t \in Threads : pc'[t] = pc[t]
           \/ {pc[t], pc'[t]} \cap {"complete", "stop", "teardown"} = {},
         UNCHANGED <<handle_type, handle_rc, handle_mutex, feeding>>
  PROVE  IInv'
<1> USE DEF IInv, feeding
<1>0. \A t \in Threads : \A place \in {"complete", "stop", "teardown"} :
        pc'[t] = place <=> pc[t] = place
  OBVIOUS
<1>1. TypeOK'
  BY DEF TypeOK
<1>2. MutexInv'
  BY <1>0 DEF MutexInv
<1>3. FeederInv'
  BY <1>0 DEF FeederInv, Alive
<1>4. NoFeederInv' /\ CloseInv' /\ OpenInv'
  BY <1>0 DEF NoFeederInv, CloseInv, OpenInv, Alive
<1>5. QED
  BY <1>1, <1>2, <1>3, <1>4

\* While nobody holds the mutex, a device has a thread if it needs one, and that
\* thread has not been told to leave.
LEMMA Quiet ==
  ASSUME IInv, handle_mutex = None
  PROVE  /\ \A t \in Threads : pc[t] \notin {"complete", "stop", "teardown"}
         /\ \A f \in Feeders : Alive(f) => device_thread_running
         /\ handle_type \in Push => device_thread_running
         /\ (handle_type = Closed) <=> (handle_rc = 0)
<1>1. \A t \in Threads : pc[t] \notin {"complete", "stop", "teardown"}
  BY DeviceConstants DEF IInv, MutexInv
<1>2. \A f \in Feeders : Alive(f) => device_thread_running
  BY <1>1 DEF IInv, FeederInv
<1>3. QED
  BY <1>1, <1>2 DEF IInv, OpenInv

\* The device is opened, or opened again, or found open, and is set up.
LEMMA InvOpen ==
  ASSUME IInv, NEW ok \in BOOLEAN, SetUp(ok),
         handle_mutex = None, handle_mutex' = None,
         \/ OpenAgain
         \/ handle_type = Closed /\ \E i \in Tried : Found(i)
         \/ handle_type # Closed /\ UNCHANGED search,
         pc' \in [Threads -> Places],
         \A t \in Threads : pc'[t] \notin {"complete", "stop", "teardown"}
  PROVE  IInv'
<1> USE DEF IInv
<1>1. /\ handle_type' \in Built /\ handle_rc' \in Nat /\ handle_rc' # 0
      /\ handle_type # Closed => handle_type' = handle_type
  <2>1. CASE OpenAgain
    BY <2>1 DEF OpenAgain, TypeOK
  <2>2. CASE handle_type = Closed /\ \E i \in Tried : Found(i)
    BY <2>2 DEF Found, Tried, TypeOK
  <2>3. CASE handle_type # Closed /\ UNCHANGED search
    BY <2>3, Quiet DEF search, TypeOK
  <2>4. QED
    BY <2>1, <2>2, <2>3
<1>2. handle_type' # Closed
  BY <1>1, DeviceConstants
<1>3. handle_type = Closed => \A f \in Feeders : ~Alive(f)
  BY DeviceConstants DEF FeederInv, Push, Search
<1>4. MutexInv' /\ CloseInv'
  BY DeviceConstants DEF MutexInv, CloseInv
<1>5. CASE UNCHANGED feeding
  <2>1. TypeOK'
    BY <1>1, <1>5 DEF TypeOK, feeding
  <2>2. \A f \in Feeders : Alive(f) =>
          handle_type' = handle_type /\ ~device_thread_should_exit
    BY <1>1, <1>3, Quiet DEF FeederInv
  <2>3. FeederInv'
    BY <1>5, <2>2 DEF FeederInv, Alive, feeding
  <2>4. NoFeederInv'
    BY <1>5 DEF NoFeederInv, Alive, feeding
  <2>5. handle_type' \in Push => device_thread_running
    BY <1>5, Quiet DEF SetUp, Fed, StartFeeder, TypeOK, Push, feeding
  <2>6. OpenInv'
    BY <1>1, <1>2, <1>5, <2>5 DEF OpenInv, NoFeederInv, Alive, feeding
  <2>7. QED
    BY <1>4, <2>1, <2>3, <2>4, <2>6
<1>6. CASE Fed /\ StartFeeder
  <2>1. \A f \in Feeders : ~Alive(f)
    BY <1>6, Quiet DEF Fed
  <2>2. PICK f \in Feeders : feeder' = [feeder EXCEPT ![f] = "test"]
    BY <1>6 DEF StartFeeder
  <2>3. TypeOK'
    <3>1. /\ feeder' \in [Feeders -> {"none", "test", "pull", "write", "leave", "post"}]
          /\ device_thread_stopped' \in Nat
      BY <1>6, <2>2 DEF TypeOK, StartFeeder
    <3>2. /\ device_thread_running' \in BOOLEAN /\ device_thread_should_exit' \in BOOLEAN
          /\ fed' \in [Feeders -> Built \cup {Closed}]'
      BY <1>6, Zenon DEF TypeOK, StartFeeder
    <3>3. QED
      BY <1>1, <3>1, <3>2 DEF TypeOK
  <2>4. \A g \in Feeders : Alive(g)' <=> g = f
    BY <2>1, <2>2 DEF Alive, TypeOK
  <2>5. feeder'[f] = "test"
    BY <2>2 DEF TypeOK
  <2>6. FeederInv'
    BY <1>6, <2>4, <2>5 DEF FeederInv, Fed, StartFeeder
  <2>7. NoFeederInv' /\ OpenInv'
    BY <1>1, <1>2, <2>4 DEF NoFeederInv, OpenInv
  <2>8. QED
    BY <1>4, <2>3, <2>6, <2>7
<1>7. QED
  BY <1>5, <1>6 DEF SetUp

\* Whoever completes or closes takes the mutex.
LEMMA InvComplete ==
  ASSUME IInv, NEW t \in Threads, NEW closing \in BOOLEAN, Complete(t, closing)
  PROVE  IInv'
<1> USE DEF IInv, Complete, feeding, search
<1>1. pc' = [pc EXCEPT ![t] = "complete"]
  BY DEF Goes
<1>2. TypeOK'
  BY <1>1 DEF TypeOK, Places
<1>3. \A u \in Threads : pc[u] \notin {"complete", "stop", "teardown"}
  BY Quiet
<1>4. MutexInv'
  BY <1>1, <1>3 DEF MutexInv, TypeOK
<1>5. FeederInv' /\ NoFeederInv'
  BY <1>3 DEF FeederInv, NoFeederInv, Alive
<1>6. CloseInv' /\ OpenInv'
  BY <1>1, <1>3 DEF CloseInv, OpenInv, Alive, TypeOK
<1>7. QED
  BY <1>2, <1>4, <1>5, <1>6

LEMMA InvReleased ==
  ASSUME IInv, NEW t \in Threads, Released(t)
  PROVE  IInv'
<1> USE DEF IInv, Released, Completed, Returns, feeding
<1>1. pc' = [pc EXCEPT ![t] = "idle"]
  BY DEF Goes
<1>2. \A u \in Threads : pc[u] \in {"complete", "stop", "teardown"} <=> u = t
  BY DEF MutexInv
<1>3. handle_rc' \in Nat /\ (handle_rc' = 0 <=> handle_rc = 0)
  BY DEF TypeOK
<1>4. TypeOK'
  BY <1>1, <1>3 DEF TypeOK, Places
<1>5. MutexInv'
  BY <1>1, <1>2, DeviceConstants DEF MutexInv, TypeOK
<1>6. FeederInv' /\ NoFeederInv'
  BY <1>2 DEF FeederInv, NoFeederInv, Alive
<1>7. CloseInv' /\ OpenInv'
  BY <1>1, <1>2, <1>3 DEF CloseInv, OpenInv, Alive, TypeOK
<1>8. QED
  BY <1>4, <1>5, <1>6, <1>7

\* The last reference: with a device thread, the close goes on to wait for it.
LEMMA InvLastReleased ==
  ASSUME IInv, NEW t \in Threads, LastReleased(t)
  PROVE  IInv'
<1> USE DEF IInv, LastReleased, Completed
<1>1. pc' = [pc EXCEPT ![t] = Awaited]
  BY DEF Goes
<1>2. \A u \in Threads : pc[u] \in {"complete", "stop", "teardown"} <=> u = t
  BY DEF MutexInv
<1>3. \A f \in Feeders : Alive(f) => device_thread_running
  BY <1>2 DEF FeederInv
<1>4. TypeOK'
  <2>1. device_thread_should_exit' \in BOOLEAN
    BY Zenon DEF TypeOK
  <2>2. pc' \in [Threads -> Places]
    BY <1>1 DEF TypeOK, Places, Awaited
  <2>3. QED
    BY <2>1, <2>2 DEF TypeOK
<1>5. MutexInv'
  BY <1>1, <1>2 DEF MutexInv, TypeOK, Awaited
<1>6. FeederInv'
  <2>1. CASE device_thread_running
    <3>1. pc'[t] = "stop"
      BY <1>1, <2>1 DEF TypeOK, Awaited
    <3>2. QED
      BY <2>1, <3>1 DEF FeederInv, Alive
  <2>2. CASE ~device_thread_running
    BY <1>3, <2>2 DEF FeederInv, Alive
  <2>3. QED
    BY <2>1, <2>2
<1>7. CloseInv'
  BY <1>1, <1>2, <1>3 DEF CloseInv, Alive, TypeOK, Awaited
<1>8. NoFeederInv' /\ OpenInv'
  BY <1>1 DEF NoFeederInv, OpenInv, Alive, TypeOK, Awaited
<1>9. QED
  BY <1>4, <1>5, <1>6, <1>7, <1>8

\* The semaphore is posted by a thread that is gone.
LEMMA InvStopped ==
  ASSUME IInv, NEW t \in Threads, Stopped(t)
  PROVE  IInv'
<1> USE DEF IInv, Stopped
<1>1. pc' = [pc EXCEPT ![t] = "teardown"]
  BY DEF Goes
<1>2. \A f \in Feeders : ~Alive(f)
  BY DEF FeederInv, TypeOK
<1>3. TypeOK'
  BY <1>1 DEF TypeOK, Places, search
<1>4. MutexInv'
  BY <1>1 DEF MutexInv, TypeOK
<1>5. FeederInv' /\ NoFeederInv'
  BY <1>2 DEF FeederInv, NoFeederInv, Alive
<1>6. CloseInv' /\ OpenInv'
  BY <1>1, <1>2 DEF CloseInv, OpenInv, Alive, TypeOK, search
<1>7. QED
  BY <1>3, <1>4, <1>5, <1>6

LEMMA InvTearDown ==
  ASSUME IInv, NEW t \in Threads, TearDown(t)
  PROVE  IInv'
<1> USE DEF IInv, TearDown, Returns, feeding
<1>1. pc' = [pc EXCEPT ![t] = "idle"]
  BY DEF Goes
<1>2. /\ \A u \in Threads : pc[u] \in {"complete", "stop", "teardown"} <=> u = t
      /\ handle_rc = 0 /\ \A f \in Feeders : ~Alive(f)
  BY DEF MutexInv, CloseInv
<1>3. TypeOK'
  BY <1>1 DEF TypeOK, Places
<1>4. MutexInv'
  BY <1>1, <1>2, DeviceConstants DEF MutexInv, TypeOK
<1>5. FeederInv' /\ NoFeederInv'
  BY <1>2 DEF FeederInv, NoFeederInv, Alive
<1>6. CloseInv'
  BY <1>1, <1>2 DEF CloseInv, Alive, TypeOK
<1>7. OpenInv'
  BY <1>2, DeviceConstants DEF OpenInv, Push, Search
<1>8. QED
  BY <1>3, <1>4, <1>5, <1>6, <1>7

\* The device thread on its way around the loop.
LEMMA InvFeeds ==
  ASSUME IInv, NEW f \in Feeders, Feeds(f)
  PROVE  IInv'
<1> USE DEF IInv, FeederGoes, unfed, search
<1>0. Alive(f)
  BY DEF Feeds, FeederReads, FeederPulls, FeederWrites, FeederLeaves, FeederPosts, Alive
<1>1. MutexInv'
  BY DEF Feeds, FeederReads, FeederPulls, FeederWrites, FeederLeaves, FeederPosts, MutexInv
<1>2. PICK place \in {"none", "test", "pull", "write", "leave", "post"} :
        feeder' = [feeder EXCEPT ![f] = place]
  BY DEF Feeds, FeederReads, FeederPulls, FeederWrites, FeederLeaves, FeederPosts
<1>3. \A g \in Feeders : g # f => ~Alive(g) /\ ~Alive(g)'
  BY <1>0, <1>2 DEF FeederInv, Alive, TypeOK
<1>4. feeder'[f] = place
  BY <1>2 DEF TypeOK
<1>5. CASE FeederReads(f)
  <2>1. TypeOK'
    BY <1>2, <1>5 DEF FeederReads, TypeOK
  <2>2. FeederInv'
    BY <1>0, <1>3, <1>4, <1>5 DEF FeederReads, FeederInv, Alive, TypeOK
  <2>3. NoFeederInv' /\ CloseInv' /\ OpenInv'
    BY <1>0, <1>4, <1>5 DEF FeederReads, NoFeederInv, CloseInv, OpenInv, Alive, TypeOK
  <2>4. QED
    BY <1>1, <2>1, <2>2, <2>3
<1>6. CASE FeederPulls(f) \/ FeederWrites(f)
  <2>1. TypeOK'
    BY <1>2, <1>6 DEF FeederPulls, FeederWrites, TypeOK
  <2>2. FeederInv'
    BY <1>0, <1>3, <1>4, <1>6 DEF FeederPulls, FeederWrites, FeederInv, Alive, TypeOK
  <2>3. NoFeederInv' /\ CloseInv' /\ OpenInv'
    BY <1>0, <1>4, <1>6
    DEF FeederPulls, FeederWrites, NoFeederInv, CloseInv, OpenInv, Alive, TypeOK
  <2>4. QED
    BY <1>1, <2>1, <2>2, <2>3
<1>7. CASE FeederLeaves(f)
  <2>1. TypeOK'
    BY <1>2, <1>7 DEF FeederLeaves, TypeOK
  <2>2. FeederInv'
    BY <1>0, <1>3, <1>4, <1>7 DEF FeederLeaves, FeederInv, Alive, TypeOK
  <2>3. NoFeederInv' /\ CloseInv' /\ OpenInv'
    BY <1>0, <1>4, <1>7 DEF FeederLeaves, NoFeederInv, CloseInv, OpenInv, Alive, TypeOK
  <2>4. QED
    BY <1>1, <2>1, <2>2, <2>3
<1>8. CASE FeederPosts(f)
  <2>1. TypeOK'
    BY <1>2, <1>8 DEF FeederPosts, TypeOK
  <2>2. \A g \in Feeders : ~Alive(g)'
    BY <1>3, <1>8 DEF FeederPosts, Alive, TypeOK
  <2>3. (\E t \in Threads : pc[t] = "stop") /\ ~device_thread_running
    BY <1>0, <1>8 DEF FeederPosts, FeederInv
  <2>4. FeederInv' /\ NoFeederInv' /\ CloseInv' /\ OpenInv'
    BY <1>8, <2>2, <2>3 DEF FeederPosts, FeederInv, NoFeederInv, CloseInv, OpenInv
  <2>5. QED
    BY <1>1, <2>1, <2>4
<1>9. QED
  BY <1>5, <1>6, <1>7, <1>8 DEF Feeds
-----------------------------------------------------------------------------
LEMMA InvThread ==
  ASSUME IInv, NEW t \in Threads,
         xptone_open(t) \/ Play(t) \/ xptone_complete(t) \/ xptone_close(t) \/ Ends(t)
  PROVE  IInv'
<1> USE DEF IInv, TypeOK
<1>1. CASE xptone_open(t)
  <2>1. CASE handle_type = Closed /\ NotFound /\ UNCHANGED <<started, feeding, refs>>
    BY <1>1, <2>1, InvAside DEF xptone_open, NotFound
  <2>2. CASE /\ OpenAgain \/ (handle_type = Closed /\ \E i \in Tried : Found(i))
             /\ \E ok \in BOOLEAN : SetUp(ok)
    <3>1. PICK ok \in BOOLEAN : SetUp(ok)
      BY <2>2
    <3>2. QED
      BY <1>1, <2>2, <3>1, Quiet, InvOpen DEF xptone_open
  <2>3. QED
    BY <1>1, <2>1, <2>2, Zenon DEF xptone_open
<1>2. CASE Play(t)
  <2>0. \A u \in Threads : pc[u] \notin {"complete", "stop", "teardown"}
    BY <1>2, Quiet DEF Play
  <2>1. CASE /\ handle_type = Closed /\ NotFound /\ UNCHANGED <<started, feeding>>
             /\ \E place \in {"idle", "reclose"} : Goes(t, place)
    BY <1>2, <2>0, <2>1, InvAside DEF Play, NotFound, Goes, Places
  <2>2. CASE /\ \/ handle_type # Closed /\ UNCHANGED search
                \/ handle_type = Closed /\ \E i \in Tried : Found(i)
             /\ \E ok \in BOOLEAN : SetUp(ok)
             /\ Goes(t, "play")
    <3>1. PICK ok \in BOOLEAN : SetUp(ok)
      BY <2>2
    <3>2. /\ pc' \in [Threads -> Places]
          /\ \A u \in Threads : pc'[u] \notin {"complete", "stop", "teardown"}
      BY <2>0, <2>2 DEF Goes, Places
    <3>3. QED
      BY <1>2, <2>2, <3>1, <3>2, InvOpen DEF Play
  <2>3. QED
    BY <1>2, <2>1, <2>2, Zenon DEF Play
<1>3. CASE xptone_complete(t) \/ xptone_close(t) \/ ClosesAgain(t)
  BY <1>3, InvComplete DEF xptone_complete, xptone_close, ClosesAgain
<1>4. CASE \/ SoundFails(t) \/ Drained(t)
           \/ \E background \in BOOLEAN : Sound(t, background)
  BY <1>4, InvAside DEF SoundFails, Drained, Sound, Leaves, Goes, Places, search
<1>5. CASE Waited(t)
  BY <1>5, InvAside DEF Waited, search
<1>6. QED
  BY <1>1, <1>2, <1>3, <1>4, <1>5, InvReleased, InvLastReleased, InvStopped, InvTearDown
  DEF Ends

LEMMA InvNext == IInv /\ [Next]_vars => IInv'
<1> SUFFICES ASSUME IInv, [Next]_vars PROVE IInv'
  OBVIOUS
<1>1. CASE Next
  <2>1. CASE CallsBack
    BY <2>1, InvAside DEF CallsBack, unfed, search, IInv, TypeOK
  <2>2. QED
    BY <1>1, <2>1, InvThread, InvFeeds DEF Next
<1>2. CASE UNCHANGED vars
  BY <1>2, InvAside DEF vars, search, IInv, TypeOK
<1>3. QED
  BY <1>1, <1>2

LEMMA InvAlways == Spec => []IInv
BY InvInit, InvNext, PTL DEF Spec

\* device_thread_fn runs only while the device is open that it feeds, there is
\* one such thread for each device that needs it, and a device is open exactly
\* while it is referred to.
THEOREM FeederOnOpenDevice == Spec => []DeviceOutlivesFeeder
<1>1. IInv => DeviceOutlivesFeeder
  <2> SUFFICES ASSUME IInv PROVE DeviceOutlivesFeeder
    OBVIOUS
  <2>1. \A f \in Feeders : feeder[f] # "none" =>
          /\ handle_type \in Push
          /\ feeder[f] \in {"pull", "write"} => fed[f] = handle_type
          /\ \A g \in Feeders : feeder[g] # "none" => g = f
    BY DEF IInv, FeederInv, Alive
  <2>2. handle_mutex = None =>
          /\ handle_type \in Push => \E f \in Feeders : feeder[f] # "none"
          /\ (handle_type = Closed) <=> (handle_rc = 0)
    BY Quiet DEF IInv, NoFeederInv, Alive
  <2>3. QED
    BY <2>1, <2>2 DEF DeviceOutlivesFeeder
<1>2. QED
  BY <1>1, InvAlways, PTL
-----------------------------------------------------------------------------
(* What CallersHold is for *)

\* Has the device open for itself, or has failed to open it.
Solo(t) == must_close[t] /\ pc[t] \in {"play", "drain", "reclose"}

HoldTypeOK ==
  /\ refs \in Nat
  /\ closes \in BOOLEAN
  /\ must_close \in [Threads -> BOOLEAN]

Shutting == \E t \in Threads : pc[t] \in {"stop", "teardown"}

\* There is a reference for each that the application has been given, for the
\* call that has the device open for itself and for the one that closes.
Counted ==
  /\ handle_rc >= refs
  /\ \A t \in Threads : Solo(t) => handle_rc >= refs + 1
  /\ \A t \in Threads : pc[t] = "complete" /\ closes =>
       /\ handle_rc >= refs + 1
       /\ \A u \in Threads : Solo(u) => handle_rc >= refs + 2

HoldInv ==
  /\ HoldTypeOK
  /\ \A t, u \in Threads : Solo(t) /\ Solo(u) => t = u
  /\ \A t \in Threads : Guest(t) => refs > 0
  /\ \A t \in Threads : pc[t] = "reclose" => must_close[t]
  /\ handle_type = Closed \/ Shutting =>
       refs = 0 /\ \A t \in Threads : pc[t] \notin {"play", "drain"}
  /\ handle_type # Closed /\ ~Shutting => Counted

\* Steps of the device thread and of a back end, and a wait for a stream.
LEMMA HoldAside ==
  ASSUME HoldInv, UNCHANGED <<handle_type, handle_rc, pc, must_close, closes, refs>>
  PROVE  HoldInv'
BY DEF HoldInv, HoldTypeOK, Guest, Shutting, Counted, Solo

\* A reference that the application is given, or is not if the device was not
\* started.
LEMMA HoldOpen ==
  ASSUME CallersHold, IInv, HoldInv, NEW t \in Threads, xptone_open(t)
  PROVE  HoldInv'
<1> USE DEF HoldInv, xptone_open
<1>1. handle_rc \in Nat
  BY DEF IInv, TypeOK
<1>2. ~Shutting /\ \A u \in Threads : pc[u] # "complete"
  BY Quiet DEF Shutting
<1>3. HoldTypeOK'
  <2>1. refs' \in Nat
    BY DEF HoldTypeOK
  <2>2. closes' \in BOOLEAN /\ must_close' \in [Threads -> BOOLEAN]
    BY Zenon DEF HoldTypeOK, Begins
  <2>3. QED
    BY <2>1, <2>2 DEF HoldTypeOK
<1>4. pc' = pc /\ \A u \in Threads : (Solo(u)' <=> Solo(u)) /\ (Guest(u)' <=> Guest(u))
  BY Zenon DEF Solo, Guest, Begins
<1>5. CASE handle_type = Closed /\ NotFound /\ UNCHANGED refs
  BY <1>2, <1>3, <1>4, <1>5 DEF NotFound, Shutting
<1>6. CASE /\ OpenAgain \/ (handle_type = Closed /\ \E i \in Tried : Found(i))
           /\ refs' \in {refs, refs + 1}
  <2>1. handle_rc' = handle_rc + 1 /\ handle_type' # Closed
    BY <1>6, DeviceConstants DEF OpenAgain, Found, Tried
  <2>2. ~Shutting' /\ \A u \in Threads : pc'[u] # "complete"
    BY <1>2, <1>4 DEF Shutting
  <2>3. refs \in Nat /\ refs' \in Nat /\ refs' >= refs /\ refs' <= refs + 1
    BY <1>6 DEF HoldTypeOK
  <2>4. handle_rc >= refs /\ \A u \in Threads : Solo(u) => handle_rc >= refs + 1
    <3>1. CASE handle_type # Closed
      BY <1>2, <3>1 DEF Counted
    <3>2. CASE handle_type = Closed
      <4>1. \A u \in Threads : ~Solo(u)
        BY <3>2 DEF MayOpen, Others, InCall, Begins, Solo
      <4>2. QED
        BY <1>1, <3>2, <4>1
    <3>3. QED
      BY <3>1, <3>2
  <2>5. Counted'
    BY <1>1, <1>4, <2>1, <2>2, <2>3, <2>4 DEF Counted
  <2>6. \A u \in Threads : Guest(u)' => refs' > 0
    BY <1>4, <2>3
  <2>7. \A u \in Threads : pc'[u] = "reclose" => must_close'[u]
    BY <1>4, Zenon
  <2>8. QED
    BY <1>3, <1>4, <2>1, <2>2, <2>5, <2>6, <2>7
<1>7. QED
  BY <1>5, <1>6, Zenon

\* A call finds the device held by the application, or has it for itself.
LEMMA HoldPlay ==
  ASSUME CallersHold, IInv, HoldInv, NEW t \in Threads, Play(t)
  PROVE  HoldInv'
<1> USE DEF HoldInv, Play
<1>1. handle_rc \in Nat /\ pc \in [Threads -> Places]
  BY DEF IInv, TypeOK
<1>2. ~Shutting /\ \A u \in Threads : pc[u] # "complete"
  BY Quiet DEF Shutting
<1>3. HoldTypeOK'
  <2>1. closes' \in BOOLEAN /\ refs' \in Nat
    BY Zenon DEF HoldTypeOK
  <2>2. must_close' \in [Threads -> BOOLEAN]
    BY Zenon DEF HoldTypeOK
  <2>3. QED
    BY <2>1, <2>2 DEF HoldTypeOK
<1>4. \A u \in Threads \ {t} : pc'[u] = pc[u] /\ must_close'[u] = must_close[u]
  BY <1>1 DEF Goes, HoldTypeOK
<1>5. must_close'[t] <=> handle_type = Closed
  BY DEF HoldTypeOK
<1>6. PICK place \in {"play", "idle", "reclose"} :
        /\ pc' = [pc EXCEPT ![t] = place]
        /\ place = "reclose" => handle_type = Closed
  BY DEF Goes
<1>7. ~Shutting' /\ \A u \in Threads : pc'[u] = "reclose" => must_close'[u]
  BY <1>1, <1>2, <1>4, <1>5, <1>6 DEF Shutting
<1>8. CASE handle_type = Closed
  <2>1. \A u \in Threads \ {t} : pc[u] = "idle"
    BY <1>1, <1>2, <1>8 DEF MayPlay, Others, InCall, Places
  <2>2. \A u \in Threads : Solo(u)' => u = t
    BY <1>4, <2>1 DEF Solo
  <2>3. \A u \in Threads : ~Guest(u)'
    BY <1>4, <1>5, <1>8, <2>1 DEF Guest
  <2>4. refs' = 0
    BY <1>8
  <2>5. CASE NotFound /\ place # "play"
    BY <1>1, <1>3, <1>4, <1>6, <1>8, <2>1, <2>2, <2>3, <2>4, <2>5, <1>7 DEF NotFound
  <2>6. CASE \E i \in Tried : Found(i)
    <3>1. handle_rc' = handle_rc + 1 /\ handle_type' # Closed
      BY <2>6, DeviceConstants DEF Found, Tried
    <3>2. \A u \in Threads : pc'[u] # "complete"
      BY <1>1, <1>2, <1>6
    <3>3. QED
      BY <1>1, <1>3, <1>7, <2>2, <2>3, <2>4, <3>1, <3>2 DEF Counted
  <2>7. QED
    BY <1>1, <1>6, <1>8, <2>5, <2>6 DEF Goes
<1>9. CASE handle_type # Closed
  <2>1. refs > 0 /\ refs' = refs /\ handle_type' = handle_type /\ handle_rc' = handle_rc
    BY <1>9, Zenon DEF MayPlay, search
  <2>2. ~Solo(t)'
    BY <1>5, <1>9 DEF Solo
  <2>3. \A u \in Threads : Solo(u)' => Solo(u)
    BY <1>4, <2>2 DEF Solo
  <2>4. \A u \in Threads : pc'[u] # "complete"
    BY <1>1, <1>2, <1>6
  <2>5. QED
    BY <1>2, <1>3, <1>7, <1>9, <2>1, <2>3, <2>4 DEF Counted
<1>10. QED
  BY <1>8, <1>9

\* A call has played, is left behind by its sample, or gives up.
LEMMA HoldLeaves ==
  ASSUME IInv, HoldInv, NEW t \in Threads,
         \/ SoundFails(t) \/ Drained(t)
         \/ \E background \in BOOLEAN : Sound(t, background)
  PROVE  HoldInv'
<1> USE DEF HoldInv
<1>1. handle_rc \in Nat /\ pc \in [Threads -> Places]
  BY DEF IInv, TypeOK
<1>2. /\ UNCHANGED <<handle_type, handle_rc, must_close, closes>>
      /\ pc[t] \in {"play", "drain"}
  BY DEF SoundFails, Drained, Sound, search
<1>3. handle_type # Closed /\ ~Shutting
  BY <1>2
<1>4. PICK place \in {"idle", "drain", "reclose"} :
        /\ pc' = [pc EXCEPT ![t] = place]
        /\ place = "reclose" => must_close[t]
        /\ refs' = IF must_close[t] /\ place = "idle" THEN refs + 1 ELSE refs
  <2>1. CASE SoundFails(t) \/ Drained(t)
    <3>1. CASE must_close[t]
      BY <2>1, <3>1 DEF SoundFails, Drained, Leaves, Goes
    <3>2. CASE ~must_close[t]
      BY <2>1, <3>2 DEF SoundFails, Drained, Leaves, Goes
    <3>3. QED
      BY <3>1, <3>2
  <2>2. CASE Sound(t, TRUE)
    BY <2>2 DEF Sound, Goes
  <2>3. CASE Sound(t, FALSE)
    BY <2>3 DEF Sound, Goes
  <2>4. QED
    BY <2>1, <2>2, <2>3
<1>5. /\ pc'[t] = place
      /\ \A u \in Threads \ {t} : pc'[u] = pc[u]
  BY <1>1, <1>4
<1>6. HoldTypeOK'
  <2>1. refs' \in Nat
    BY <1>4 DEF HoldTypeOK
  <2>2. closes' \in BOOLEAN /\ must_close' \in [Threads -> BOOLEAN]
    BY <1>2, Zenon DEF HoldTypeOK
  <2>3. QED
    BY <2>1, <2>2 DEF HoldTypeOK
<1>7. /\ \A u \in Threads : Solo(u)' => Solo(u)
      /\ \A u \in Threads : Guest(u)' => Guest(u)
      /\ \A u \in Threads : pc'[u] = "reclose" => must_close'[u]
  BY <1>2, <1>4, <1>5 DEF Solo, Guest
<1>8. ~Shutting' /\ \A u \in Threads : pc'[u] = "complete" => pc[u] = "complete"
  BY <1>3, <1>5 DEF Shutting
<1>9. CASE must_close[t] /\ place = "idle"
  <2>1. Solo(t) /\ refs' = refs + 1
    BY <1>2, <1>4, <1>9 DEF Solo
  <2>2. \A u \in Threads : ~Solo(u)'
    BY <1>5, <1>7, <1>9, <2>1 DEF Solo
  <2>3. QED
    BY <1>1, <1>2, <1>3, <1>6, <1>7, <1>8, <2>1, <2>2 DEF Counted, HoldTypeOK
<1>10. CASE ~(must_close[t] /\ place = "idle")
  BY <1>1, <1>2, <1>3, <1>4, <1>6, <1>7, <1>8, <1>10 DEF Counted, HoldTypeOK
<1>11. QED
  BY <1>9, <1>10

\* A close of the application gives up one of its references, that of a call
\* the one it has; xptone_complete none.
LEMMA HoldComplete ==
  ASSUME IInv, HoldInv, NEW t \in Threads,
         xptone_complete(t) \/ xptone_close(t) \/ ClosesAgain(t)
  PROVE  HoldInv'
<1> USE DEF HoldInv
<1>1. handle_rc \in Nat /\ pc \in [Threads -> Places]
  BY DEF IInv, TypeOK
<1>2. /\ UNCHANGED <<handle_type, handle_rc>> /\ closes' \in BOOLEAN
      /\ handle_mutex = None /\ pc[t] \in {"idle", "reclose"}
      /\ pc' = [pc EXCEPT ![t] = "complete"]
  BY DEF xptone_complete, xptone_close, ClosesAgain, Complete, Goes, Begins, search
<1>3. ~Shutting /\ \A u \in Threads : pc[u] # "complete"
  BY <1>2, Quiet DEF Shutting
<1>4. /\ \A u \in Threads \ {t} : pc'[u] = pc[u]
      /\ pc'[t] = "complete"
  BY <1>1, <1>2
<1>5. ~Shutting'
  BY <1>3, <1>4 DEF Shutting
<1>6. CASE xptone_complete(t)
  <2>1. closes' = FALSE /\ UNCHANGED <<must_close, refs>>
    BY <1>6 DEF xptone_complete, Complete
  <2>2. HoldTypeOK'
    BY <2>1, Zenon DEF HoldTypeOK
  <2>3. \A u \in Threads : (Solo(u)' => Solo(u)) /\ (Guest(u)' => Guest(u))
    BY <1>4, <2>1 DEF Solo, Guest
  <2>4. \A u \in Threads : pc'[u] = "reclose" => must_close'[u]
    BY <1>4, <2>1
  <2>5. handle_type # Closed => Counted'
    BY <1>2, <1>3, <1>4, <2>1, <2>3 DEF Counted
  <2>6. QED
    BY <1>2, <1>4, <1>5, <2>1, <2>2, <2>3, <2>4, <2>5
<1>7. CASE xptone_close(t)
  <2>1. refs > 0 /\ refs' = refs - 1 /\ UNCHANGED must_close /\ MayClose
    BY <1>7 DEF xptone_close
  <2>2. HoldTypeOK'
    <3>1. refs' \in Nat
      BY <2>1 DEF HoldTypeOK
    <3>2. closes' \in BOOLEAN /\ must_close' \in [Threads -> BOOLEAN]
      BY <1>2, <2>1, Zenon DEF HoldTypeOK
    <3>3. QED
      BY <3>1, <3>2 DEF HoldTypeOK
  <2>3. \A u \in Threads : (Solo(u)' => Solo(u)) /\ (Guest(u)' => Guest(u))
    BY <1>4, <2>1 DEF Solo, Guest
  <2>4. \A u \in Threads : Guest(u) => refs' > 0
    BY <2>1 DEF MayClose, HoldTypeOK
  <2>5. handle_type # Closed
    BY <2>1
  <2>6. Counted'
    BY <1>1, <1>2, <1>3, <1>4, <2>1, <2>3, <2>5 DEF Counted, HoldTypeOK
  <2>7. \A u \in Threads : pc'[u] = "reclose" => must_close'[u]
    BY <1>4, <2>1
  <2>8. QED
    BY <1>2, <1>5, <2>2, <2>3, <2>4, <2>5, <2>6, <2>7
<1>8. CASE ClosesAgain(t)
  <2>1. /\ must_close' = [must_close EXCEPT ![t] = FALSE] /\ UNCHANGED refs
        /\ pc[t] = "reclose"
    BY <1>8 DEF ClosesAgain
  <2>2. HoldTypeOK'
    <3>1. must_close' \in [Threads -> BOOLEAN]
      BY <2>1, Zenon DEF HoldTypeOK
    <3>2. refs' \in Nat /\ closes' \in BOOLEAN
      BY <1>2, <2>1, Zenon DEF HoldTypeOK
    <3>3. QED
      BY <3>1, <3>2 DEF HoldTypeOK
  <2>3. \A u \in Threads \ {t} : must_close'[u] = must_close[u]
    BY <2>1 DEF HoldTypeOK
  <2>4. \A u \in Threads : (Solo(u)' => u # t /\ Solo(u)) /\ (Guest(u)' => Guest(u))
    BY <1>4, <2>3 DEF Solo, Guest
  <2>5. Solo(t)
    BY <2>1 DEF Solo
  <2>6. /\ \A u \in Threads : ~Solo(u)'
        /\ \A u \in Threads : pc'[u] = "reclose" => must_close'[u]
    BY <1>4, <2>3, <2>4, <2>5
  <2>7. handle_type # Closed => Counted'
    BY <1>1, <1>2, <1>3, <1>4, <2>1, <2>5, <2>6 DEF Counted, HoldTypeOK
  <2>8. QED
    BY <1>2, <1>4, <1>5, <2>1, <2>2, <2>4, <2>6, <2>7
<1>9. QED
  BY <1>6, <1>7, <1>8

\* The end of a completion or close: the last reference goes only when nobody
\* has been promised one.
LEMMA HoldCloses ==
  ASSUME IInv, HoldInv, NEW t \in Threads,
         Released(t) \/ LastReleased(t) \/ Stopped(t) \/ TearDown(t)
  PROVE  HoldInv'
<1> USE DEF HoldInv
<1>1. handle_rc \in Nat /\ pc \in [Threads -> Places]
  BY DEF IInv, TypeOK
<1>2. /\ UNCHANGED <<must_close, closes, refs>>
      /\ pc[t] \in {"complete", "stop", "teardown"}
  BY DEF Released, LastReleased, Stopped, TearDown, Completed
<1>3. PICK place \in {"idle", "stop", "teardown"} :
        /\ pc' = [pc EXCEPT ![t] = place]
        /\ Released(t) \/ TearDown(t) <=> place = "idle"
  BY DEF Released, LastReleased, Stopped, TearDown, Completed, Returns, Goes, Awaited
<1>4. \A u \in Threads \ {t} :
        pc'[u] = pc[u] /\ pc[u] \notin {"complete", "stop", "teardown"}
  BY <1>1, <1>2, <1>3 DEF IInv, MutexInv
<1>5. pc'[t] = place
  BY <1>1, <1>3
<1>6. HoldTypeOK'
  BY <1>2, Zenon DEF HoldTypeOK
<1>7. \A u \in Threads : /\ Solo(u)' <=> Solo(u)
                         /\ Guest(u)' <=> Guest(u)
                         /\ pc'[u] = "reclose" => must_close'[u]
  BY <1>2, <1>4, <1>5 DEF Solo, Guest
<1>8. \A u \in Threads : pc'[u] # "complete"
  BY <1>4, <1>5
<1>9. \A u \in Threads : pc'[u] \in {"play", "drain"} => pc[u] = pc'[u]
  BY <1>4, <1>5
<1>10. CASE Released(t)
  <2>1. handle_type' = handle_type /\ pc[t] = "complete"
    BY <1>10 DEF Released, Completed
  <2>2. ~Shutting /\ ~Shutting'
    BY <1>3, <1>4, <1>5, <1>10, <2>1 DEF Shutting
  <2>3. CASE handle_type = Closed
    BY <1>2, <1>6, <1>7, <1>9, <2>1, <2>2, <2>3
  <2>4. CASE handle_type # Closed
    <3>1. /\ closes => handle_rc' = handle_rc - 1
          /\ ~closes => handle_rc' = handle_rc
      BY <1>1, <1>10, <2>1, <2>2, <2>4 DEF Released, Counted, HoldTypeOK
    <3>2. Counted'
      <4>1. CASE closes
        BY <1>1, <1>2, <1>7, <1>8, <2>1, <2>2, <2>4, <3>1, <4>1 DEF Counted, HoldTypeOK
      <4>2. CASE ~closes
        BY <1>1, <1>2, <1>7, <1>8, <2>1, <2>2, <2>4, <3>1, <4>2 DEF Counted, HoldTypeOK
      <4>3. QED
        BY <4>1, <4>2
    <3>3. QED
      BY <1>2, <1>6, <1>7, <2>1, <2>2, <2>4, <3>2
  <2>5. QED
    BY <2>3, <2>4
<1>11. CASE LastReleased(t)
  <2>1. pc[t] = "complete" /\ closes /\ handle_rc = 1 /\ handle_type' = handle_type
    BY <1>11 DEF LastReleased, Completed
  <2>2. ~Shutting /\ Shutting'
    BY <1>3, <1>4, <1>5, <1>11, <2>1 DEF Shutting, LastReleased, Awaited, Goes
  <2>3. handle_type # Closed
    BY <2>1, <2>2 DEF IInv, OpenInv, Shutting
  <2>4. refs = 0 /\ \A u \in Threads : ~Solo(u)
    BY <2>1, <2>2, <2>3 DEF Counted, HoldTypeOK
  <2>5. \A u \in Threads : pc[u] \notin {"play", "drain"}
    BY <2>4 DEF Solo, Guest
  <2>6. QED
    BY <1>2, <1>6, <1>7, <1>9, <2>2, <2>4, <2>5
<1>12. CASE Stopped(t) \/ TearDown(t)
  <2>1. Shutting
    BY <1>12 DEF Shutting, Stopped, TearDown
  <2>2. handle_type' = Closed \/ Shutting'
    BY <1>3, <1>5, <1>12 DEF Shutting, Stopped, TearDown, Goes
  <2>3. QED
    BY <1>2, <1>6, <1>7, <1>9, <2>1, <2>2
<1>13. QED
  BY <1>10, <1>11, <1>12

LEMMA HoldNext == CallersHold /\ IInv /\ HoldInv /\ [Next]_vars => HoldInv'
<1> SUFFICES ASSUME CallersHold, IInv, HoldInv, [Next]_vars PROVE HoldInv'
  OBVIOUS
<1>1. CASE Next
  <2>1. CASE \E f \in Feeders : Feeds(f)
    BY <2>1, HoldAside
    DEF Feeds, FeederReads, FeederPulls, FeederWrites, FeederLeaves, FeederPosts, unfed, search
  <2>2. CASE CallsBack
    BY <2>2, HoldAside DEF CallsBack, unfed, search
  <2>3. ASSUME NEW t \in Threads,
               xptone_open(t) \/ Play(t) \/ xptone_complete(t) \/ xptone_close(t) \/ Ends(t)
        PROVE  HoldInv'
    <3>1. CASE Waited(t)
      BY <3>1, HoldAside DEF Waited, search
    <3>2. QED
      BY <2>3, <3>1, HoldOpen, HoldPlay, HoldComplete, HoldLeaves, HoldCloses DEF Ends
  <2>4. QED
    BY <1>1, <2>1, <2>2, <2>3 DEF Next
<1>2. CASE UNCHANGED vars
  BY <1>2, HoldAside DEF vars, search
<1>3. QED
  BY <1>1, <1>2

LEMMA HoldInit == Init => HoldInv
<1> SUFFICES ASSUME Init PROVE HoldInv
  OBVIOUS
<1> USE DEF Init
<1>1. HoldTypeOK
  <2>1. refs \in Nat
    OBVIOUS
  <2>2. closes \in BOOLEAN /\ must_close \in [Threads -> BOOLEAN]
    BY Zenon
  <2>3. QED
    BY <2>1, <2>2 DEF HoldTypeOK
<1>2. QED
  BY <1>1 DEF HoldInv, Solo, Guest

\* If nobody counts on a device that another call has opened for itself, the
\* device is open for the life of each call of xptone and xp_play_sample16s.
THEOREM HeldForLife == ASSUME CallersHold PROVE Spec => []OpenForLife
<1>1. IInv /\ HoldInv => OpenForLife
  BY DEF HoldInv, OpenForLife
<1>2. IInv /\ HoldInv /\ [Next]_vars => HoldInv'
  BY HoldNext
<1>3. QED
  BY <1>1, <1>2, HoldInit, InvAlways, PTL DEF Spec
=============================================================================
