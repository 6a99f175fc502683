------------------------------- MODULE Device -------------------------------
(***************************************************************************)
(* xpbeep.c: the sound device that plays what module Mixer mixes: which    *)
(* back end is found, who keeps it open, the thread that feeds it, and the *)
(* calls that open it only for as long as they play.  A step is a section  *)
(* under handle_mutex, or a part of one that waits.  Of a stream only the  *)
(* number of pulls is left that it still has to sound for.                 *)
(***************************************************************************)
EXTENDS Naturals, FiniteSets, Sequences

CONSTANTS
  Threads,       \* threads of the application
  Feeders,       \* names for device threads
  Built,         \* the back ends that are compiled in and enabled
  Streams,       \* slots of the mixer: 1 up to XP_AUDIO_MAX_STREAMS
  MaxPulls,      \* bound: pulls that a sample sounds for
  MaxCalls,      \* bound: calls the threads make in all
  CallersHold,   \* nobody relies on a device that another call has opened
  OpenMayFail,   \* a back end that is tried may fail to open
  StartMayFail,  \* Pa_StartStream may fail
  Closed,        \* SOUND_DEVICE_CLOSED
  None

\* The order in which they are tried.
Search == <<"COREAUDIO", "WIN32", "PORTAUDIO", "PIPEWIRE", "SDL", "PULSEAUDIO", "ALSA", "OSS">>

\* backend_is_push: needs a thread that feeds it.  The others call back.
Push == {"ALSA", "OSS"}

ASSUME DeviceConstants ==
  /\ IsFiniteSet(Threads) /\ IsFiniteSet(Feeders) /\ Feeders # {}
  /\ Built \subseteq {Search[i] : i \in DOMAIN Search}
  /\ IsFiniteSet(Streams) /\ Streams = 1 .. Cardinality(Streams)
  /\ MaxPulls \in Nat \ {0} /\ MaxCalls \in Nat
  /\ CallersHold \in BOOLEAN /\ OpenMayFail \in BOOLEAN /\ StartMayFail \in BOOLEAN
  /\ Closed \notin {Search[i] : i \in DOMAIN Search} /\ None \notin Threads

VARIABLES
  handle_type,   \* the back end that is open, or Closed
  handle_rc,     \* references to it
  open_failed,   \* back ends that are not tried again
  started,       \* the stream of PortAudio has been started
  handle_mutex,  \* its holder, or None
  device_thread_running, device_thread_should_exit,
  device_thread_stopped,  \* a semaphore: its count
  feeder,        \* where each device thread is
  fed,           \* the back end it has read
  pulls,         \* what each stream still sounds for
  stream,        \* the stream that a thread waits for, or None
  pc, must_close, walk,  \* of each thread; walk: streams it has still to wait for
  closes,        \* the holder of handle_mutex closes, and does not only complete
  refs,          \* references that the application has been given
  calls          \* calls begun

search == <<handle_type, handle_rc, open_failed>>
feeding == <<device_thread_running, device_thread_should_exit, device_thread_stopped, feeder, fed>>
playing == <<pulls, stream>>
vars == <<search, started, handle_mutex, feeding, playing, pc, must_close, walk, closes, refs, calls>>

Init ==
  /\ handle_type = Closed /\ handle_rc = 0 /\ open_failed = {} /\ started = FALSE
  /\ handle_mutex = None
  /\ device_thread_running = FALSE /\ device_thread_should_exit = FALSE
  /\ device_thread_stopped = 0
  /\ feeder = [f \in Feeders |-> "none"]
  /\ fed = [f \in Feeders |-> Closed]
  /\ pulls = [s \in Streams |-> 0]
  /\ stream = [t \in Threads |-> None]
  /\ pc = [t \in Threads |-> "idle"]
  /\ must_close = [t \in Threads |-> FALSE]
  /\ walk = [t \in Threads |-> {}]
  /\ closes = FALSE
  /\ refs = 0 /\ calls = 0

Goes(t, place) == pc' = [pc EXCEPT ![t] = place]

Others(t, places) == \E other \in Threads \ {t} : pc[other] \in places

InCall == {"play", "drain", "reclose", "complete", "stop", "teardown"}

\* Plays, and has found the device open.
Guest(t) == pc[t] \in {"play", "drain"} /\ ~must_close[t]
-----------------------------------------------------------------------------
(* xptone_open_locked and what follows it, under handle_mutex *)

Tried == {i \in DOMAIN Search : Search[i] \in Built \ open_failed}

Failing(I) == open_failed' = open_failed \cup {Search[i] : i \in I}

\* A back end opens, after those before it have failed.
Found(i) ==
  /\ i \in Tried
  /\ \A j \in Tried : j < i => OpenMayFail /\ Search[j] # "WIN32"
  /\ Failing({j \in Tried : j < i})
  /\ handle_type' = Search[i]
  /\ handle_rc' = handle_rc + 1

\* None does, or that of Windows fails, which ends the search.
NotFound ==
  /\ OpenMayFail \/ Tried = {}
  /\ UNCHANGED <<handle_type, handle_rc>>
  /\ \/ Failing(Tried)
     \/ \E i \in Tried : Search[i] = "WIN32" /\ Failing({j \in Tried : j <= i})

OpenAgain ==
  /\ handle_type # Closed
  /\ handle_rc' = handle_rc + 1
  /\ UNCHANGED <<handle_type, open_failed>>

\* start_device_thread_locked does something.
Fed == handle_type' \in Push /\ ~device_thread_running

StartFeeder ==
  \E f \in Feeders :
    /\ feeder[f] = "none"
    /\ feeder' = [feeder EXCEPT ![f] = "test"]
    /\ device_thread_should_exit' = FALSE
    /\ device_thread_stopped' = 0
    /\ device_thread_running' = TRUE
    /\ UNCHANGED fed

\* post_open_setup_locked, which returns ok
SetUp(ok) ==
  \/ /\ handle_type' = "PORTAUDIO"
     /\ ok \/ (StartMayFail /\ ~started)
     /\ started' = ok
     /\ UNCHANGED feeding
  \/ /\ handle_type' # "PORTAUDIO" /\ ok
     /\ IF Fed THEN StartFeeder ELSE UNCHANGED feeding
     /\ UNCHANGED started
-----------------------------------------------------------------------------
(* Calls *)

Begins(t) == pc[t] = "idle" /\ calls < MaxCalls /\ calls' = calls + 1

\* Callers see to this: the application does not give up its last reference while
\* somebody plays on it; and while a call has the device open for itself, and also
\* when it has failed to, nobody counts on that device.
MayOpen(t) == CallersHold /\ handle_type = Closed => ~Others(t, InCall)
MayPlay(t) == CallersHold => IF handle_type = Closed THEN ~Others(t, InCall) ELSE refs > 0
MayClose == refs > 1 \/ \A t \in Threads : ~Guest(t)

xptone_open(t) ==
  /\ Begins(t) /\ MayOpen(t)
  /\ handle_mutex = None
  /\ \/ /\ OpenAgain \/ (handle_type = Closed /\ \E i \in Tried : Found(i))
        /\ \E ok \in BOOLEAN : SetUp(ok) /\ refs' = IF ok THEN refs + 1 ELSE refs
     \/ handle_type = Closed /\ NotFound /\ UNCHANGED <<started, feeding, refs>>
  /\ UNCHANGED <<handle_mutex, playing, pc, must_close, walk, closes>>

\* xp_play_sample16s and xptone, up to the stream.  If there is no device,
\* xptone closes what it has not opened.
Play(t) ==
  /\ Begins(t) /\ MayPlay(t)
  /\ handle_mutex = None
  /\ must_close' = [must_close EXCEPT ![t] = (handle_type = Closed)]
  /\ \/ /\ \/ handle_type # Closed /\ UNCHANGED search
           \/ handle_type = Closed /\ \E i \in Tried : Found(i)
        /\ \E ok \in BOOLEAN : SetUp(ok)
        /\ Goes(t, "play")
     \/ /\ handle_type = Closed /\ NotFound
        /\ UNCHANGED <<started, feeding>>
        /\ \E place \in {"idle", "reclose"} : Goes(t, place)
  /\ UNCHANGED <<handle_mutex, playing, walk, closes, refs>>

\* Mistake: a call closes a device that it has found open.
LeavesClosing(t) == Goes(t, "reclose")

Leaves(t) == Goes(t, IF must_close[t] THEN "reclose" ELSE "idle")

Unused(s) == pulls[s] = 0 /\ \A t \in Threads : stream[t] # s

\* The first stream that is not in use; one that a sample in the background
\* has left is taken again when it is silent.
Sound(t, background) ==
  /\ pc[t] = "play"
  /\ \E s \in Streams, n \in 1 .. MaxPulls :
       /\ Unused(s) /\ \A other \in Streams : Unused(other) => s <= other
       /\ pulls' = [pulls EXCEPT ![s] = n]
       /\ stream' = [stream EXCEPT ![t] = IF background THEN None ELSE s]
  /\ Goes(t, IF background THEN "idle" ELSE "drain")
  /\ refs' = IF background /\ must_close[t] THEN refs + 1 ELSE refs
  /\ UNCHANGED <<search, started, handle_mutex, feeding, must_close, walk, closes, calls>>

\* No stream, or no memory.
SoundFails(t) ==
  /\ pc[t] = "play"
  /\ Leaves(t)
  /\ UNCHANGED <<search, started, handle_mutex, feeding, playing, must_close, walk, closes, refs, calls>>

\* xp_audio_drain and xp_audio_close
Drained(t) ==
  /\ pc[t] = "drain" /\ pulls[stream[t]] = 0
  /\ stream' = [stream EXCEPT ![t] = None]
  /\ Leaves(t)
  /\ UNCHANGED <<search, started, handle_mutex, feeding, pulls, must_close, walk, closes, refs, calls>>
-----------------------------------------------------------------------------
(* xptone_complete and xptone_close *)

Complete(t, closing) ==
  /\ handle_mutex = None
  /\ handle_mutex' = t
  /\ closes' = closing
  /\ walk' = [walk EXCEPT ![t] = IF handle_type = Closed THEN {} ELSE Streams]
  /\ Goes(t, "complete")
  /\ UNCHANGED <<search, started, feeding, playing>>

xptone_complete(t) ==
  /\ Begins(t)
  /\ Complete(t, FALSE)
  /\ UNCHANGED <<must_close, refs>>

xptone_close(t) ==
  /\ Begins(t) /\ refs > 0 /\ MayClose
  /\ Complete(t, TRUE)
  /\ refs' = refs - 1
  /\ UNCHANGED must_close

ClosesAgain(t) ==
  /\ pc[t] = "reclose"
  /\ Complete(t, TRUE)
  /\ must_close' = [must_close EXCEPT ![t] = FALSE]
  /\ UNCHANGED <<refs, calls>>

\* Waits for the streams in their order, whoever plays them.
Waited(t) ==
  /\ pc[t] = "complete"
  /\ \E s \in walk[t] :
       /\ \A other \in walk[t] : s <= other
       /\ pulls[s] = 0
       /\ walk' = [walk EXCEPT ![t] = @ \ {s}]
  /\ UNCHANGED <<search, started, handle_mutex, feeding, playing, pc, must_close, closes, refs, calls>>

Returns(t) == Goes(t, "idle") /\ handle_mutex' = None

Completed(t) == pc[t] = "complete" /\ walk[t] = {}

\* Nothing to close, or not the last reference.
Released(t) ==
  /\ Completed(t)
  /\ ~closes \/ handle_rc # 1
  /\ handle_rc' = IF closes /\ handle_rc > 0 THEN handle_rc - 1 ELSE handle_rc
  /\ Returns(t)
  /\ UNCHANGED <<handle_type, open_failed, started, feeding, playing, must_close, walk, closes, refs, calls>>

\* Mistake: the device thread is told to stop, and not waited for.
AfterStop == "teardown"

\* stop_device_thread_locked waits, if there is one.
Awaited == IF device_thread_running THEN "stop" ELSE "teardown"

LastReleased(t) ==
  /\ Completed(t) /\ closes /\ handle_rc = 1
  /\ handle_rc' = 0
  /\ device_thread_should_exit' = (device_thread_should_exit \/ device_thread_running)
  /\ Goes(t, Awaited)
  /\ UNCHANGED <<handle_type, open_failed, started, handle_mutex, device_thread_running,
                 device_thread_stopped, feeder, fed, playing, must_close, walk, closes, refs, calls>>

Stopped(t) ==
  /\ pc[t] = "stop" /\ device_thread_stopped > 0
  /\ device_thread_stopped' = device_thread_stopped - 1
  /\ Goes(t, "teardown")
  /\ UNCHANGED <<search, started, handle_mutex, device_thread_running, device_thread_should_exit,
                 feeder, fed, playing, must_close, walk, closes, refs, calls>>

\* All back ends may be tried again.
TearDown(t) ==
  /\ pc[t] = "teardown"
  /\ handle_type' = Closed /\ open_failed' = {} /\ started' = FALSE
  /\ Returns(t)
  /\ UNCHANGED <<handle_rc, feeding, playing, must_close, walk, closes, refs, calls>>
-----------------------------------------------------------------------------
(* The device thread *)

FeederGoes(f, place) == feeder' = [feeder EXCEPT ![f] = place]

unfed == <<search, started, handle_mutex, stream, pc, must_close, walk, closes, refs, calls>>

Mix == pulls' = [s \in Streams |-> IF pulls[s] > 0 THEN pulls[s] - 1 ELSE 0]

Silent == \A s \in Streams : pulls[s] = 0

FeederReads(f) ==
  /\ feeder[f] = "test"
  /\ IF device_thread_should_exit
     THEN FeederGoes(f, "leave") /\ UNCHANGED fed
     ELSE FeederGoes(f, "pull") /\ fed' = [fed EXCEPT ![f] = handle_type]
  /\ UNCHANGED <<unfed, pulls, device_thread_running, device_thread_should_exit, device_thread_stopped>>

\* Without anything to play it sleeps and looks again.
FeederPulls(f) ==
  /\ feeder[f] = "pull"
  /\ Mix
  /\ FeederGoes(f, IF Silent THEN "test" ELSE "write")
  /\ UNCHANGED <<unfed, fed, device_thread_running, device_thread_should_exit, device_thread_stopped>>

FeederWrites(f) ==
  /\ feeder[f] = "write"
  /\ FeederGoes(f, "test")
  /\ UNCHANGED <<unfed, pulls, fed, device_thread_running, device_thread_should_exit, device_thread_stopped>>

FeederLeaves(f) ==
  /\ feeder[f] = "leave"
  /\ device_thread_running' = FALSE
  /\ FeederGoes(f, "post")
  /\ UNCHANGED <<unfed, pulls, fed, device_thread_should_exit, device_thread_stopped>>

\* Mistake: the thread ends without a word.
FeederEnds(f) ==
  /\ feeder[f] = "post"
  /\ FeederGoes(f, "none")
  /\ UNCHANGED <<unfed, pulls, fed, device_thread_running, device_thread_should_exit, device_thread_stopped>>

FeederPosts(f) ==
  /\ feeder[f] = "post"
  /\ device_thread_stopped' = device_thread_stopped + 1
  /\ FeederGoes(f, "none")
  /\ UNCHANGED <<unfed, pulls, fed, device_thread_running, device_thread_should_exit>>

\* A back end that asks for what it needs.
Calls == handle_type \notin Push \cup {Closed} /\ (handle_type = "PORTAUDIO" => started)

CallsBack ==
  /\ Calls /\ ~Silent
  /\ Mix
  /\ UNCHANGED <<unfed, feeding>>
-----------------------------------------------------------------------------
Ends(t) ==
  \/ SoundFails(t) \/ Drained(t) \/ ClosesAgain(t) \/ Waited(t) \/ Released(t)
  \/ LastReleased(t) \/ Stopped(t) \/ TearDown(t)
  \/ \E background \in BOOLEAN : Sound(t, background)

Feeds(f) ==
  FeederReads(f) \/ FeederPulls(f) \/ FeederWrites(f) \/ FeederLeaves(f) \/ FeederPosts(f)

Next ==
  \/ \E t \in Threads :
       xptone_open(t) \/ Play(t) \/ xptone_complete(t) \/ xptone_close(t) \/ Ends(t)
  \/ \E f \in Feeders : Feeds(f)
  \/ CallsBack

Spec == Init /\ [][Next]_vars

\* A device that is open goes on asking, its thread goes on, and so does a
\* thread that can go on inside a call.  None of them waits for calls that the
\* application has not begun.
FairSpec ==
  /\ Spec
  /\ \A t \in Threads : WF_vars(Ends(t))
  /\ \A f \in Feeders : WF_vars(Feeds(f))
  /\ WF_vars(CallsBack)
-----------------------------------------------------------------------------
(* Properties *)

\* There is a device thread only while a device is open that needs one, and only
\* one; it feeds the device that is open; and when nobody is opening or closing
\* there is one for each such device, and a device exactly while it is referred
\* to.  "The device fd/handle is guaranteed to remain valid while the thread
\* runs" (device_thread_fn).
DeviceOutlivesFeeder ==
  LET alive == {f \in Feeders : feeder[f] # "none"}
  IN /\ \A f \in alive :
          /\ handle_type \in Push
          /\ feeder[f] \in {"pull", "write"} => fed[f] = handle_type
          /\ \A g \in alive : g = f
     /\ handle_mutex = None =>
          /\ handle_type \in Push => alive # {}
          /\ (handle_type = Closed) <=> (handle_rc = 0)

\* "Ensure the audio backend is open for the life of this call" (xptone): who has
\* a sample or a tone to play, or waits for its end, has a device that plays it.
OpenForLife == \A t \in Threads : pc[t] \in {"play", "drain"} => handle_type # Closed

\* A call that plays, completes or closes returns: what it waits for is played
\* by a device that stays open, the device thread answers, and the mutex is free
\* in the end.
PlayReturns == \A t \in Threads : pc[t] # "idle" ~> pc[t] = "idle"
=============================================================================
