-------------------------------- MODULE Mixer --------------------------------
(***************************************************************************)
(* xpbeep.c: the streams that are mixed, by threads of an application and  *)
(* a device that pulls.  A step is a section under a stream's mutex; who   *)
(* holds mixer_lock longer is written down.  Between stream_from_handle    *)
(* and the section that follows, a thread has a bare pointer.              *)
(*                                                                         *)
(* The progress event only shortens waits, which all have a time limit: a  *)
(* thread that waits looks again at any time.                              *)
(***************************************************************************)
EXTENDS Playback, FiniteSets

CONSTANTS
  Threads,      \* threads of the application
  Device,       \* the device thread, or the callback of the sound system
  Slots,        \* handles: 1 up to XP_AUDIO_MAX_STREAMS
  Streams,      \* names for streams that are allocated
  Kinds,        \* what is appended
  Chunk,        \* frames of one pull
  MaxCalls,     \* bound: calls the threads make in all
  ClosersWait,  \* nobody closes a handle while another thread uses it
  None

ASSUME MixerConstants ==
  /\ IsFiniteSet(Threads) /\ IsFiniteSet(Streams) /\ IsFiniteSet(Bufs)
  /\ Device \notin Threads
  /\ Slots \subseteq Nat \ {0} /\ \E n \in Slots : Slots = 1 .. n
  /\ Kinds \subseteq Kind
  /\ Chunk \in Nat \ {0} /\ MaxCalls \in Nat
  /\ ClosersWait \in BOOLEAN
  /\ None \notin Threads \cup {Device} \cup Streams \cup Bufs
  /\ None \notin [id : Bufs, kind : Kinds]

VARIABLES
  table,     \* mixer_streams: the stream of each handle, or None
  live,      \* streams that are allocated
  stream,    \* what is in them
  lock,      \* holder of mixer_lock, or None
  slot,      \* the loop index of the holder
  pc,        \* where each thread is
  ptr,       \* its stream pointer, or None
  given,     \* the buffer it appends and how, or None
  todo,      \* the calls that the call it is in has still to make
  walker,    \* holder of handle_mutex in xptone_complete, or None
  handles,   \* handles the application knows
  fresh,     \* buffers not allocated so far
  freed,     \* buffers that have been freed
  calls      \* calls begun

vars == <<table, live, stream, lock, slot, pc, ptr, given, todo, walker, handles,
          fresh, freed, calls>>

LastSlot == CHOOSE n \in Slots : \A h \in Slots : h <= n

\* No handle: what open returns when it fails.
NoHandle == 0

NewStream == [queue |-> <<>>, finished |-> FALSE, done |-> FALSE, auto_close |-> FALSE]

Ids(q) == {q[i].id : i \in DOMAIN q}

Init ==
  /\ table = [h \in Slots |-> None]
  /\ live = {}
  /\ stream = [s \in Streams |-> NewStream]
  /\ lock = None
  /\ slot = 1
  /\ pc = [t \in Threads |-> "idle"]
  /\ ptr = [t \in Threads |-> None]
  /\ given = [t \in Threads |-> None]
  /\ todo = [t \in Threads |-> <<>>]
  /\ walker = None
  /\ handles = {}
  /\ fresh = Bufs
  /\ freed = {}
  /\ calls = 0
-----------------------------------------------------------------------------
\* Calls inside calls.  What xp_audio_play and xp_play_sample do after they have
\* opened a stream: "give" hands the handle to the application.
Plans == [
  open       |-> <<"give">>,
  play       |-> <<"append", "finish", "give">>,
  no_memory  |-> <<"close">>,
  background |-> <<"append", "finish", "auto_close">>,
  foreground |-> <<"append", "finish", "sync", "close">>]

On(ops, h) == [i \in DOMAIN ops |-> [op |-> ops[i], handle |-> h]]

Idle(t) == pc[t] = "idle" /\ todo[t] = <<>> /\ walker # t

Busy(t) == pc[t] # "idle" \/ todo[t] # <<>>

\* What the callers of xptone_complete see to: no stream is opened or closed
\* while it goes through them.
Undisturbed == walker = None

AppBegins(t) == Idle(t) /\ calls < MaxCalls /\ calls' = calls + 1

InCallOn(t, h) == ptr[t] # None /\ ptr[t] = table[h]

\* The next part of a longer call, or a call of the application: on a handle it
\* knows, or on none, which only matters for a buffer.
Begins(t, op, h) ==
  /\ pc[t] = "idle"
  /\ \/ /\ todo[t] # <<>>
        /\ Head(todo[t]) = [op |-> op, handle |-> h]
        /\ todo' = [todo EXCEPT ![t] = Tail(@)]
        /\ UNCHANGED calls
     \/ /\ AppBegins(t)
        /\ h \in handles \/ (h = NoHandle /\ op = "append")
        /\ op # "auto_close"
        /\ UNCHANGED todo

\* stream_from_handle
StreamOf(h) == IF h \in Slots THEN table[h] ELSE None

\* A call that does nothing but look its stream up and change it.
Lookup(t, op, h) ==
  /\ op \in {"finish", "stop", "clear", "sync", "auto_close"}
  /\ Begins(t, op, h)
  /\ lock = None
  /\ ptr' = [ptr EXCEPT ![t] = StreamOf(h)]
  /\ pc' = [pc EXCEPT ![t] = IF StreamOf(h) = None THEN "idle" ELSE op]
  /\ UNCHANGED <<table, live, stream, lock, slot, given, walker, handles, fresh, freed>>

\* Samples are appended without options.
MayAppend(t, k) == todo[t] # <<>> /\ todo[t][Len(todo[t])].op # "give" => Plain(k)

LookupForAppend(t, h, k) ==
  LET b == CHOOSE b \in fresh : TRUE
  IN /\ fresh # {}
     /\ Begins(t, "append", h)
     /\ MayAppend(t, k)
     /\ lock = None
     /\ fresh' = fresh \ {b}
     /\ ptr' = [ptr EXCEPT ![t] = StreamOf(h)]
     /\ IF StreamOf(h) = None
        THEN freed' = freed \cup {b} /\ UNCHANGED <<pc, given>>
        ELSE /\ pc' = [pc EXCEPT ![t] = "append"]
             /\ given' = [given EXCEPT ![t] = [id |-> b, kind |-> k]]
             /\ UNCHANGED freed
     /\ UNCHANGED <<table, live, stream, lock, slot, walker, handles>>
-----------------------------------------------------------------------------
\* The sections under s->mutex that end a call.
Returns(t) ==
  /\ pc' = [pc EXCEPT ![t] = "idle"]
  /\ ptr' = [ptr EXCEPT ![t] = None]

OnlyStream(t) ==
  /\ Returns(t)
  /\ UNCHANGED <<table, live, lock, slot, given, todo, walker, handles, fresh, freed, calls>>

\* Mistake: xp_audio_append accepts buffers after xp_audio_finish.
AcceptsLate(s) == ~stream[s].done

Accepts(s) == ~stream[s].finished /\ ~stream[s].done

\* xp_audio_play does not finish a stream that loops.
AfterAppend(t) ==
  IF todo[t] # <<>> /\ given[t].kind.loop THEN [todo EXCEPT ![t] = Tail(@)] ELSE todo

AppendLink(t) ==
  /\ pc[t] = "append"
  /\ Accepts(ptr[t])
  /\ stream' = [stream EXCEPT ![ptr[t]].queue = Appended(@, given[t].id, given[t].kind)]
  /\ given' = [given EXCEPT ![t] = None]
  /\ todo' = AfterAppend(t)
  /\ Returns(t)
  /\ UNCHANGED <<table, live, lock, slot, walker, handles, fresh, freed, calls>>

\* Mistake: a buffer that is not accepted is left to the caller.
AppendRefusedLeaks(t) ==
  /\ pc[t] = "append"
  /\ ~Accepts(ptr[t])
  /\ given' = [given EXCEPT ![t] = None]
  /\ Returns(t)
  /\ UNCHANGED <<table, live, stream, lock, slot, todo, walker, handles, fresh, freed, calls>>

\* Refused, or no memory for the node and nothing that will free any: while the
\* stream is not done it waits for memory and tries again.
AppendRefused(t) ==
  /\ pc[t] = "append"
  /\ ~Accepts(ptr[t])
  /\ freed' = freed \cup {given[t].id}
  /\ given' = [given EXCEPT ![t] = None]
  /\ Returns(t)
  /\ UNCHANGED <<table, live, stream, lock, slot, todo, walker, handles, fresh, calls>>

\* The stream s after xp_audio_finish has left the buffers q.
Finished(s, q) ==
  [queue |-> q, finished |-> TRUE, done |-> s.done \/ q = <<>>, auto_close |-> s.auto_close]

\* Mistake: xp_audio_finish leaves loops alone.
FinishLooping(t) ==
  /\ pc[t] = "finish"
  /\ stream' = [stream EXCEPT ![ptr[t]] = Finished(@, @.queue)]
  /\ OnlyStream(t)

Finish(t) ==
  /\ pc[t] = "finish"
  /\ stream' = [stream EXCEPT ![ptr[t]] = Finished(@, LoopsEnded(@.queue))]
  /\ OnlyStream(t)

\* drop_all_bufs_locked
AllDropped(s) == freed' = freed \cup Ids(stream[s].queue)

Stop(t) ==
  /\ pc[t] = "stop"
  /\ AllDropped(ptr[t])
  /\ stream' = [stream EXCEPT ![ptr[t]] = Finished(@, <<>>)]
  /\ Returns(t)
  /\ UNCHANGED <<table, live, lock, slot, given, todo, walker, handles, fresh, calls>>

Clear(t) ==
  /\ pc[t] = "clear"
  /\ AllDropped(ptr[t])
  /\ stream' = [stream EXCEPT ![ptr[t]].queue = <<>>]
  /\ Returns(t)
  /\ UNCHANGED <<table, live, lock, slot, given, todo, walker, handles, fresh, calls>>

\* xp_play_sample16s in the background
AutoClose(t) ==
  /\ pc[t] = "auto_close"
  /\ stream' = [stream EXCEPT ![ptr[t]].auto_close = TRUE]
  /\ OnlyStream(t)

\* Mistake: a drain waits for a loop that nobody ends.
SyncReturnsEmpty(t) ==
  /\ pc[t] = "sync"
  /\ stream[ptr[t]].queue = <<>> \/ stream[ptr[t]].done
  /\ UNCHANGED stream
  /\ OnlyStream(t)

\* xp_audio_mixer_sync, until the test of its loop fails
SyncReturns(t) ==
  /\ pc[t] = "sync"
  /\ LET s == stream[ptr[t]] IN s.queue = <<>> \/ s.done \/ LoopsOn(s.queue)
  /\ UNCHANGED stream
  /\ OnlyStream(t)
-----------------------------------------------------------------------------
\* free_stream_locked
FreeStream(s) ==
  /\ live' = live \ {s}
  /\ AllDropped(s)
  /\ stream' = [stream EXCEPT ![s] = NewStream]

\* xp_audio_close
CloseBegins(t, h) ==
  /\ Begins(t, "close", h)
  /\ todo[t] = <<>> => Undisturbed
  /\ ClosersWait => \A other \in Threads \ {t} : ~InCallOn(other, h)
  /\ lock = None
  /\ lock' = t
  /\ table' = [table EXCEPT ![h] = None]
  /\ handles' = handles \ {h}
  /\ ptr' = [ptr EXCEPT ![t] = table[h]]
  /\ pc' = [pc EXCEPT ![t] = "free"]
  /\ stream' = [stream EXCEPT ![table[h]].done = TRUE]
  /\ UNCHANGED <<live, slot, given, walker, fresh, freed>>

CloseFrees(t) ==
  /\ pc[t] = "free"
  /\ FreeStream(ptr[t])
  /\ lock' = None
  /\ Returns(t)
  /\ UNCHANGED <<table, slot, given, todo, walker, handles, fresh, calls>>

\* xp_audio_open, on its own or in one of the calls of Plans: the new stream is
\* nobody else's until it is placed.
OpenBegins(t, plan) ==
  LET s == CHOOSE s \in Streams \ live : TRUE
  IN /\ AppBegins(t)
     /\ Undisturbed
     /\ Streams \ live # {}
     /\ lock = None
     /\ lock' = t
     /\ slot' = 1
     /\ live' = live \cup {s}
     /\ ptr' = [ptr EXCEPT ![t] = s]
     /\ pc' = [pc EXCEPT ![t] = "reap"]
     /\ todo' = [todo EXCEPT ![t] = On(Plans[plan], NoHandle)]
     /\ UNCHANGED <<table, stream, given, walker, handles, fresh, freed>>

\* Mistake: streams that are done are reaped although their handles are known.
ReapableDone(s) == stream[s].done

Reapable(s) == stream[s].auto_close /\ stream[s].done

Reap(t) ==
  /\ pc[t] = "reap"
  /\ slot' = slot + 1
  /\ pc' = [pc EXCEPT ![t] = IF slot = LastSlot THEN "place" ELSE "reap"]
  /\ IF table[slot] # None /\ Reapable(table[slot])
     THEN FreeStream(table[slot]) /\ table' = [table EXCEPT ![slot] = None]
     ELSE UNCHANGED <<live, stream, freed, table>>
  /\ UNCHANGED <<lock, ptr, given, todo, walker, handles, fresh, calls>>

LowestUnused(h) == table[h] = None /\ \A g \in Slots : table[g] = None => h <= g

Place(t, h) ==
  /\ pc[t] = "place"
  /\ LowestUnused(h)
  /\ table' = [table EXCEPT ![h] = ptr[t]]
  /\ todo' = [todo EXCEPT ![t] = [i \in DOMAIN @ |-> [@[i] EXCEPT !.handle = h]]]
  /\ lock' = None
  /\ slot' = 1
  /\ Returns(t)
  /\ UNCHANGED <<live, stream, given, walker, handles, fresh, freed, calls>>

\* The table is full.
OpenFails(t) ==
  /\ pc[t] = "place"
  /\ \A h \in Slots : table[h] # None
  /\ FreeStream(ptr[t])
  /\ todo' = [todo EXCEPT ![t] = <<>>]
  /\ lock' = None
  /\ slot' = 1
  /\ Returns(t)
  /\ UNCHANGED <<table, given, walker, handles, fresh, calls>>

\* The application is given a handle.
Give(t) ==
  /\ pc[t] = "idle"
  /\ todo[t] # <<>>
  /\ Head(todo[t]).op = "give"
  /\ handles' = handles \cup {Head(todo[t]).handle}
  /\ todo' = [todo EXCEPT ![t] = Tail(@)]
  /\ UNCHANGED <<table, live, stream, lock, slot, pc, ptr, given, walker, fresh, freed, calls>>

\* xptone_complete, while the sound device is open
CompleteBegins(t) ==
  /\ AppBegins(t)
  /\ Undisturbed
  /\ \A other \in Threads \ {t} : todo[other] = <<>> /\ pc[other] \notin {"reap", "place", "free"}
  /\ walker' = t
  /\ todo' = [todo EXCEPT ![t] = [h \in Slots |-> [op |-> "sync", handle |-> h]]]
  /\ UNCHANGED <<table, live, stream, lock, slot, pc, ptr, given, handles, fresh, freed>>

CompleteEnds(t) ==
  /\ walker = t
  /\ ~Busy(t)
  /\ walker' = None
  /\ UNCHANGED <<table, live, stream, lock, slot, pc, ptr, given, todo, handles, fresh, freed, calls>>
-----------------------------------------------------------------------------
\* xp_mixer_pull: one step for each stream, the first of which takes the lock.
PullsAt(h) ==
  /\ slot = h
  /\ lock = Device \/ (lock = None /\ h = 1)
  /\ slot' = IF h = LastSlot THEN 1 ELSE h + 1
  /\ lock' = IF h = LastSlot THEN None ELSE Device

Plays(s) == s # None /\ ~stream[s].done /\ stream[s].queue # <<>>

\* Mistake: a pull ends with the buffer that ends in it.
PulledWithGaps(s) == PlayWithGaps(s.queue, Chunk)

Pulled(s) == Play[s.queue][Chunk]

PullStream(h) ==
  LET s == stream[table[h]]
      q == Pulled(s)
  IN /\ PullsAt(h)
     /\ Plays(table[h])
     /\ stream' = [stream EXCEPT ![table[h]] =
                     [queue |-> q, finished |-> s.finished,
                      done |-> s.finished /\ q = <<>>, auto_close |-> s.auto_close]]
     /\ freed' = freed \cup (Ids(s.queue) \ Ids(q))
     /\ UNCHANGED <<table, live, pc, ptr, given, todo, walker, handles, fresh, calls>>

PullSkips(h) ==
  /\ PullsAt(h)
  /\ ~Plays(table[h])
  /\ UNCHANGED <<table, live, stream, pc, ptr, given, todo, walker, handles, fresh, freed, calls>>
-----------------------------------------------------------------------------
Ops == {"append", "finish", "stop", "clear", "sync", "auto_close", "close", "give"}
Handles == Slots \cup {NoHandle}

Begin(t) ==
  \/ \E op \in Ops, h \in Handles : Lookup(t, op, h)
  \/ \E h \in Handles, k \in Kinds : LookupForAppend(t, h, k)
  \/ \E h \in Slots : CloseBegins(t, h)
  \/ \E plan \in DOMAIN Plans : OpenBegins(t, plan)
  \/ CompleteBegins(t)

Section(t) ==
  \/ AppendLink(t) \/ AppendRefused(t) \/ Finish(t) \/ Stop(t) \/ Clear(t)
  \/ AutoClose(t) \/ SyncReturns(t)

Owning(t) ==
  \/ CloseFrees(t) \/ Reap(t) \/ OpenFails(t)
  \/ \E h \in Slots : Place(t, h)

Pull == \E h \in Slots : PullStream(h) \/ PullSkips(h)

Next ==
  \/ \E t \in Threads : Begin(t) \/ Section(t) \/ Owning(t) \/ Give(t) \/ CompleteEnds(t)
  \/ Pull

Spec == Init /\ [][Next]_vars

\* The device goes on pulling, and a thread that can go on inside a call does.
FairSpec ==
  /\ Spec
  /\ WF_vars(Pull)
  /\ \A t \in Threads : WF_vars(Section(t) \/ Owning(t))
-----------------------------------------------------------------------------
Places == {"idle", "append", "finish", "stop", "clear", "sync", "auto_close", "free",
           "reap", "place"}

Stream == [queue : Queue, finished : BOOLEAN, done : BOOLEAN, auto_close : BOOLEAN]

WellFormed(b) == b.consumed <= b.nframes /\ b.overlay_elapsed <= b.overlay_total

\* The variables have their types, the cursors of a buffer stay within it and
\* within the fade over it, and mixer_lock is held by a thread that opens or
\* closes a stream, or by a pull.
TypeOK ==
  /\ table \in [Slots -> Streams \cup {None}]
  /\ live \subseteq Streams
  /\ stream \in [Streams -> Stream]
  /\ \A s \in Streams : \A i \in DOMAIN stream[s].queue : WellFormed(stream[s].queue[i])
  /\ lock \in Threads \cup {Device, None}
  /\ \A t \in Threads : lock = t <=> pc[t] \in {"free", "reap", "place"}
  /\ slot \in Slots \cup {LastSlot + 1}
  /\ pc \in [Threads -> Places]
  /\ ptr \in [Threads -> Streams \cup {None}]
  /\ given \in [Threads -> [id : Bufs, kind : Kinds] \cup {None}]
  /\ todo \in [Threads -> Seq([op : Ops, handle : Handles])]
  /\ walker \in Threads \cup {None}
  /\ handles \subseteq Slots
  /\ fresh \subseteq Bufs
  /\ freed \subseteq Bufs
  /\ calls \in 0 .. MaxCalls

\* No thread and no pull follows a pointer to a stream that has been freed, and
\* a handle that the application was given stands for a stream until it is closed.
NoUseAfterFree ==
  /\ \A t \in Threads : ptr[t] # None => ptr[t] \in live
  /\ \A h \in Slots : table[h] # None => table[h] \in live
  /\ \A h \in handles : table[h] # None
  /\ \A g, h \in Slots : table[g] = table[h] /\ table[g] # None => g = h

\* A buffer is not allocated yet, given to a call, queued once on one stream that
\* lives, or freed, and always one of them: none is lost, none is freed while it
\* is queued (xp_audio_append owns its buffer on every path).
BufOwnedOnce ==
  \A b \in Bufs :
    LET queued == {p \in Streams \X (1 .. Cardinality(Bufs)) :
                     /\ p[2] \in DOMAIN stream[p[1]].queue
                     /\ stream[p[1]].queue[p[2]].id = b}
        holders == {t \in Threads : given[t] # None /\ given[t].id = b}
        states == (IF b \in fresh THEN 1 ELSE 0) + (IF b \in freed THEN 1 ELSE 0)
    IN /\ Cardinality(queued) + Cardinality(holders) + states = 1
       /\ \A p \in queued : p[1] \in live

\* Buffers begin in turn: one behind the head has begun only if the head fades
\* under it or is about to be dropped, and none behind that one.  A stream that is
\* finished has no loop left that could keep it from its end.
PlaysInTurn ==
  TypeOK /\ \A s \in live :
    LET q == stream[s].queue
    IN /\ \A i \in DOMAIN q : i > 1 /\ q[i].consumed > 0 =>
            i = 2 /\ (FadesUnder(q[1]) \/ UsedUp(q[1]))
       /\ stream[s].finished => \A i \in DOMAIN q : ~q[i].loop

\* Frames still to come of buffers that neither loop nor fade under another.
ToCome[q \in Queue] ==
  IF q = <<>> THEN 0 ELSE Head(q).nframes - Head(q).consumed + ToCome[Tail(q)]

\* A pull takes from such a queue on s as many frames as it has room for.
PullTakes(s) ==
  LET q == stream[s].queue
      r == stream'[s].queue
  IN PullStream(slot) /\ table[slot] = s /\ (\A i \in DOMAIN q : ~q[i].loop /\ ~FadesUnder(q[i]))
     => /\ ToCome[r] = IF ToCome[q] > Chunk THEN ToCome[q] - Chunk ELSE 0
        /\ Ids(r) = Ids(SubSeq(q, Len(q) - Len(r) + 1, Len(q)))

\* A pull plays the buffers of a queue on end, whatever their lengths are: no gap
\* where one ends, none played twice.
Gapless == [][\A s \in live : PullTakes(s)]_vars

\* xp_audio_drain returns: what is queued is consumed, and a loop that nobody has
\* ended is not waited for.
DrainReturns == \A t \in Threads : pc[t] = "sync" ~> pc[t] # "sync"

\* xp_audio_close wakes a producer that waits for memory, or a drain, before it
\* frees the stream: those that wait have left it by then.
WaitersLeaveFirst == \A t \in Threads : pc[t] \in {"append", "sync"} => ptr[t] \in live
=============================================================================
