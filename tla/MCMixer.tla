------------------------------ MODULE MCMixer ------------------------------
(***************************************************************************)
(* Two threads, two handles, three buffers.  A pull takes two frames.      *)
(***************************************************************************)
EXTENDS Mixer, TLC

CONSTANTS t1, t2, b1, b2, b3

MCThreads == {t1, t2}
MCBufs == {b1, b2, b3}
MCSlots == 1 .. 2
MCStreams == 1 .. 3

\* Shorter than a pull, longer, a loop with a fade-out, and one that fades in over
\* its predecessor.
MCKinds == {
  [nframes |-> 1, fade_in |-> 0, fade_out |-> 0, loop |-> FALSE, crossfade |-> FALSE],
  [nframes |-> 3, fade_in |-> 0, fade_out |-> 2, loop |-> TRUE, crossfade |-> FALSE],
  [nframes |-> 4, fade_in |-> 3, fade_out |-> 0, loop |-> FALSE, crossfade |-> TRUE]}
=============================================================================
