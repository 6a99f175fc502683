------------------------------ MODULE MCRWLock ------------------------------
(***************************************************************************)
(* Three threads, three locking calls each, counters that end at 2.        *)
(***************************************************************************)
EXTENDS RWLock, TLC

CONSTANTS t1, t2, t3

MCThreads == {t1, t2, t3}
=============================================================================
