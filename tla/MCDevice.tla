------------------------------ MODULE MCDevice ------------------------------
(***************************************************************************)
(* Three threads, two streams; back ends that end the search, that are     *)
(* started apart, that call back and that are fed.                         *)
(***************************************************************************)
EXTENDS Device, TLC

CONSTANTS t1, t2, t3

MCThreads == {t1, t2, t3}
MCStreams == 1 .. 2
=============================================================================
