------------------------------ MODULE Playback ------------------------------
(***************************************************************************)
(* xpbeep.c: what the mixer does to the buffers queued on one stream.      *)
(* Samples, volumes and the shape of fades are left out; frames are        *)
(* counted.  A queue is a sequence of buffers, its head plays.             *)
(***************************************************************************)
EXTENDS Naturals, Sequences

CONSTANT Bufs   \* names of buffers

\* struct xp_audio_buf: length, read cursor, frames of fade-out, loop, and the
\* fade-out that a later buffer or the end of a loop has laid over it.
Buffer == [id : Bufs, nframes : Nat \ {0}, consumed : Nat, fade_out : Nat,
           loop : BOOLEAN, overlay_total : Nat, overlay_elapsed : Nat]

Queue == Seq(Buffer)

\* What callers append: a length and what xp_audio_opts_t says of it.
Kind == [nframes : Nat \ {0}, fade_in : Nat, fade_out : Nat, loop : BOOLEAN, crossfade : BOOLEAN]

Plain(k) == k.fade_in = 0 /\ k.fade_out = 0 /\ ~k.loop /\ ~k.crossfade

Least(m, n) == IF m < n THEN m ELSE n

\* Fades that do not fit side by side share the buffer in proportion.
FadeOut(k) ==
  LET fade_in  == Least(k.fade_in, k.nframes)
      fade_out == Least(k.fade_out, k.nframes)
  IN IF fade_in + fade_out > k.nframes
     THEN k.nframes - ((k.nframes * fade_in) \div (fade_in + fade_out))
     ELSE fade_out

NewBuf(b, k) ==
  [id |-> b, nframes |-> k.nframes, consumed |-> 0, fade_out |-> FadeOut(k),
   loop |-> k.loop, overlay_total |-> 0, overlay_elapsed |-> 0]

FadesUnder(b) == b.overlay_total > 0

\* Frames of b that a pull with room for so many mixes in.
Written(b, room) ==
  LET faded == IF FadesUnder(b) THEN b.overlay_total - b.overlay_elapsed ELSE room
      left  == IF b.loop THEN room ELSE b.nframes - b.consumed
  IN Least(room, Least(faded, left))

\* A loop wraps when the next frame is asked for, not when the last was given.
CursorAfter(b, n) ==
  IF n = 0 THEN b.consumed ELSE ((b.consumed + n - 1) % b.nframes) + 1

Mixed(b, room) ==
  LET n == Written(b, room)
      read == [b EXCEPT !.consumed = CursorAfter(b, n)]
  IN IF FadesUnder(b) THEN [read EXCEPT !.overlay_elapsed = @ + n] ELSE read

\* b has come to its end, or to the end of the fade laid over it.
UsedUp(b) ==
  \/ FadesUnder(b) /\ b.overlay_elapsed >= b.overlay_total
  \/ ~b.loop /\ b.consumed >= b.nframes

\* mix_one_buf, and dropping a buffer that is used up.
MixOne(b, room) == LET m == Mixed(b, room) IN IF UsedUp(m) THEN <<>> ELSE <<m>>

\* Mistake: a buffer that ends in the middle of a pull leaves the rest silent.
PlayWithGaps(q, room) ==
  IF q = <<>> \/ room = 0 THEN q
  ELSE IF FadesUnder(Head(q)) /\ Len(q) > 1
  THEN MixOne(q[1], room) \o MixOne(q[2], room) \o SubSeq(q, 3, Len(q))
  ELSE MixOne(Head(q), room) \o Tail(q)

\* One pull: a head that fades under its successor plays with it, and nothing
\* after the two; any other head hands what is left of the pull on when it ends.
Play[q \in Queue] ==
  [room \in Nat |->
     IF q = <<>> \/ room = 0 THEN q
     ELSE IF FadesUnder(Head(q)) /\ Len(q) > 1
     THEN MixOne(q[1], room) \o MixOne(q[2], room) \o SubSeq(q, 3, Len(q))
     ELSE IF MixOne(Head(q), room) = <<>>
     THEN Play[Tail(q)][room - Written(Head(q), room)]
     ELSE MixOne(Head(q), room) \o Tail(q)]

\* b begins to fade out over so many frames.
Under(b, total) ==
  LET fading == [b EXCEPT !.overlay_total = total]
  IN [fading EXCEPT !.overlay_elapsed = 0]

\* xp_audio_append: the tail begins to fade under a buffer that crossfades, over
\* the frames of its fade_in as the caller gave it.
Appended(q, b, k) ==
  LET under == IF k.crossfade /\ k.fade_in > 0 /\ q # <<>>
               THEN [q EXCEPT ![Len(q)] = Under(@, k.fade_in)]
               ELSE q
  IN Append(under, NewBuf(b, k))

\* xp_audio_finish: a loop plays on to its end, under a fade if its own would
\* come too late.
LoopEnded(b) ==
  LET remaining == b.nframes - b.consumed
      ended == [b EXCEPT !.loop = FALSE]
  IN IF b.loop /\ remaining < b.fade_out THEN Under(ended, remaining) ELSE ended

LoopsEnded(q) == [i \in DOMAIN q |-> LoopEnded(q[i])]

\* A head that loops for ever: nothing finite to wait for.
LoopsOn(q) == q # <<>> /\ Head(q).loop /\ ~FadesUnder(Head(q))
=============================================================================
