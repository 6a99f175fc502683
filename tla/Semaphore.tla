------------------------------ MODULE Semaphore ------------------------------
(***************************************************************************)
(* What a counting semaphore promises to the threads that call it: every   *)
(* call takes effect in one atomic step between its beginning and its      *)
(* return.  A timed wait that gives up takes no token.  Destruction is     *)
(* only possible while no other call is in progress.                       *)
(*                                                                         *)
(* XpSem shows that the mutex and condition variable of xpsem.c implement  *)
(* this, and MsgQueue is built on it.                                      *)
(***************************************************************************)
EXTENDS Naturals

CONSTANTS Threads, ValueMax, InitialValue

Kinds == {"post", "wait", "trywait", "timedwait", "destroy"}

Outcomes == {"ok", "overflow", "again", "timeout", "busy"}

VARIABLES
  alive,    \* the semaphore has not been destroyed
  value,    \* tokens available
  pending,  \* pending[t]: the call t is in, "returning" or "none"
  outcome   \* outcome[t]: result of t's latest call that took effect

vars == <<alive, value, pending, outcome>>

Init ==
  /\ alive = TRUE
  /\ value = InitialValue
  /\ pending = [t \in Threads |-> "none"]
  /\ outcome = [t \in Threads |-> "ok"]

Call(t, kind) ==
  /\ pending[t] = "none"
  /\ pending' = [pending EXCEPT ![t] = kind]
  /\ UNCHANGED <<alive, value, outcome>>

Effect(t, result) ==
  /\ pending' = [pending EXCEPT ![t] = "returning"]
  /\ outcome' = [outcome EXCEPT ![t] = result]

Post(t) ==
  /\ pending[t] = "post"
  /\ alive
  /\ \/ value < ValueMax /\ value' = value + 1 /\ Effect(t, "ok")
     \/ value = ValueMax /\ value' = value /\ Effect(t, "overflow")
  /\ UNCHANGED alive

Take(t) ==
  /\ pending[t] \in {"wait", "trywait", "timedwait"}
  /\ alive
  /\ value > 0
  /\ value' = value - 1
  /\ Effect(t, "ok")
  /\ UNCHANGED alive

\* Only a non-blocking attempt on an empty semaphore fails; a timed wait may
\* run out of time at any moment, a token that arrives as it does is kept.
GiveUp(t) ==
  /\ \/ pending[t] = "trywait" /\ value = 0 /\ Effect(t, "again")
     \/ pending[t] = "timedwait" /\ Effect(t, "timeout")
  /\ UNCHANGED <<alive, value>>

\* A semaphore somebody waits for is not destroyed.
RefuseDestroy(t) ==
  /\ pending[t] = "destroy"
  /\ \E other \in Threads : pending[other] \in {"wait", "timedwait"}
  /\ UNCHANGED <<alive, value>>
  /\ Effect(t, "busy")

\* The last thing the destroying call does is to free the semaphore.
Destroy(t) ==
  /\ pending[t] = "destroy"
  /\ \A other \in Threads \ {t} : pending[other] = "none"
  /\ alive
  /\ alive' = FALSE
  /\ UNCHANGED value
  /\ pending' = [pending EXCEPT ![t] = "none"]
  /\ outcome' = [outcome EXCEPT ![t] = "ok"]

Return(t) ==
  /\ pending[t] = "returning"
  /\ pending' = [pending EXCEPT ![t] = "none"]
  /\ UNCHANGED <<alive, value, outcome>>

Next ==
  \E t \in Threads :
    \/ \E kind \in Kinds : Call(t, kind)
    \/ Post(t) \/ Take(t) \/ GiveUp(t) \/ RefuseDestroy(t) \/ Destroy(t) \/ Return(t)

Spec == Init /\ [][Next]_vars
=============================================================================
