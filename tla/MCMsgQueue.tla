------------------------------ MODULE MCMsgQueue ------------------------------
(***************************************************************************)
(* The owner and two other threads, one of which serves the queue.         *)
(***************************************************************************)
EXTENDS MsgQueue

CONSTANTS owner, server, client

MCThreads == {owner, server, client}
MCServers == {server}
=============================================================================
