------------------------------ MODULE MCXpEvent ------------------------------
(***************************************************************************)
(* Three threads, of which t1 may close the event, make four calls in all. *)
(***************************************************************************)
EXTENDS XpEvent, TLC

CONSTANTS t1, t2, t3

MCThreads == {t1, t2, t3}
=============================================================================
