------------------------------- MODULE MCXpSem -------------------------------
(***************************************************************************)
(* Three threads, of which t1 may destroy the semaphore, make three calls  *)
(* each on a semaphore that overflows at 2.                                *)
(***************************************************************************)
EXTENDS XpSem, TLC

CONSTANTS t1, t2, t3

MCThreads == {t1, t2, t3}

\* t1 is the owner; the others are interchangeable.
MCSymmetry == Permutations({t2, t3})
=============================================================================
